---- MODULE Spec2Model ----
(***************************************************************************)
(* A model of the wager store, the settle / cancel / new-wager handlers    *)
(* and the ledger computations of the Slack bet tracker (src/bot.py).      *)
(***************************************************************************)
EXTENDS Integers, Sequences, FiniteSets, TLC

VARIABLES
    bets,     \* the rows of table "bets", in rowid order; row i has id i
    clock,    \* the wall clock read by datetime.now()
    th,       \* per handler thread: position and locals of handle_mention
    parlays,      \* the rows of table "parlays" of bets.db; row i has id i
    tg_parlays    \* the rows of table "parlays" of telegram_bets.db

vars == <<bets, clock, th, parlays, tg_parlays>>

(***************************************************************************)
(* Identities and column values.                                           *)
(***************************************************************************)
Users == {"A", "B", "C"}
NoUser == "NULL"
NoTime == -1
Threads == {1, 2}

(***************************************************************************)
(* IEEE-754 binary64 values, as float() and the += / -= of the ledger      *)
(* produce them.  A value is a sign and a magnitude held exactly as four   *)
(* limbs <<i, f1, f2, f3>> = i + f1/2^20 + f2/2^40 + f3/2^60.  Every       *)
(* double of magnitude in [2^-8, 2^12) and every sum or difference of such *)
(* doubles is a multiple of 2^-60, so the exact result is representable    *)
(* in the limbs and is then rounded to 53 significant bits, ties to even.  *)
(***************************************************************************)
LimbBase == 2^20

RECURSIVE Log2(_)
Log2(n) == IF n <= 1 THEN 0 ELSE 1 + Log2(n \div 2)

ZeroMag == <<0, 0, 0, 0>>
FZero == [neg |-> FALSE, m |-> ZeroMag]

\* Number of low bits of f3 that lie below the 53-bit significand.
DropBits(m) ==
    IF m[1] > 0 THEN 8 + Log2(m[1])
    ELSE IF m[2] > 0 /\ Log2(m[2]) > 12 THEN Log2(m[2]) - 12
    ELSE 0

MagAdd(a, b) ==
    LET s3 == a[4] + b[4]
        s2 == a[3] + b[3] + (s3 \div LimbBase)
        s1 == a[2] + b[2] + (s2 \div LimbBase)
        s0 == a[1] + b[1] + (s1 \div LimbBase)
    IN  <<s0, s1 % LimbBase, s2 % LimbBase, s3 % LimbBase>>

\* a - b for a >= b
MagSub(a, b) ==
    LET d3 == a[4] - b[4]
        b3 == IF d3 < 0 THEN 1 ELSE 0
        d2 == a[3] - b[3] - b3
        b2 == IF d2 < 0 THEN 1 ELSE 0
        d1 == a[2] - b[2] - b2
        b1 == IF d1 < 0 THEN 1 ELSE 0
    IN  <<a[1] - b[1] - b1, d1 + b1 * LimbBase, d2 + b2 * LimbBase, d3 + b3 * LimbBase>>

MagLess(a, b) ==
    \/ a[1] < b[1]
    \/ a[1] = b[1] /\ a[2] < b[2]
    \/ a[1] = b[1] /\ a[2] = b[2] /\ a[3] < b[3]
    \/ a[1] = b[1] /\ a[2] = b[2] /\ a[3] = b[3] /\ a[4] < b[4]

\* Round to nearest, ties to even; sticky says that the exact value lies
\* strictly above the limbs (the remainder of a division).
RoundMag(m, sticky) ==
    LET d == DropBits(m)
        p == 2^d
        r == m[4] % p
        half == p \div 2
        keep == <<m[1], m[2], m[3], m[4] - r>>
        odd == (m[4] \div p) % 2 = 1
        up == r > half \/ (r = half /\ (sticky \/ odd))
    IN  IF d = 0 THEN m
        ELSE IF up THEN MagAdd(keep, <<0, 0, 0, p>>) ELSE keep

MkFloat(neg, m) == [neg |-> neg /\ m # ZeroMag, m |-> m]

FNeg(x) == MkFloat(~x.neg, x.m)

\* x + y in binary64
FAdd(x, y) ==
    IF x.neg = y.neg THEN MkFloat(x.neg, RoundMag(MagAdd(x.m, y.m), FALSE))
    ELSE IF x.m = y.m THEN FZero
    ELSE IF MagLess(x.m, y.m) THEN MkFloat(y.neg, RoundMag(MagSub(y.m, x.m), FALSE))
    ELSE MkFloat(x.neg, RoundMag(MagSub(x.m, y.m), FALSE))

\* x - y in binary64
FSub(x, y) == FAdd(x, FNeg(y))

\* n / d in binary64, for integers 0 <= n and 0 < d <= 2047
FDivInt(n, d) ==
    LET q0 == n \div d
        r0 == n % d
        q1 == (r0 * LimbBase) \div d
        r1 == (r0 * LimbBase) % d
        q2 == (r1 * LimbBase) \div d
        r2 == (r1 * LimbBase) % d
        q3 == (r2 * LimbBase) \div d
        r3 == (r2 * LimbBase) % d
    IN  MkFloat(FALSE, RoundMag(<<q0, q1, q2, q3>>, r3 # 0))

\* x * k in binary64, for an integer 0 <= k <= 1000
FMulInt(x, k) ==
    LET p3 == x.m[4] * k
        p2 == x.m[3] * k + (p3 \div LimbBase)
        p1 == x.m[2] * k + (p2 \div LimbBase)
        p0 == x.m[1] * k + (p1 \div LimbBase)
    IN  MkFloat(x.neg, RoundMag(<<p0, p1 % LimbBase, p2 % LimbBase, p3 % LimbBase>>, FALSE))

FromInt(n) == MkFloat(n < 0, <<IF n < 0 THEN -n ELSE n, 0, 0, 0>>)

\* x * y in binary64, for a product of magnitude in [2^-8, 2^12) or 0.  The
\* magnitudes are multiplied exactly as integers of 60 fraction bits, held
\* in digits of 10 bits, lowest first; the 120-bit-fraction product is then
\* rounded to 53 significant bits, ties to even.
FMul(x, y) ==
    LET digits(m) == <<m[4] % 1024, m[4] \div 1024, m[3] % 1024, m[3] \div 1024,
                       m[2] % 1024, m[2] \div 1024, m[1] % 1024, m[1] \div 1024>>
        a == digits(x.m)
        b == digits(y.m)
        RECURSIVE column(_, _)
        column(k, i) ==
            IF i = 0 THEN 0
            ELSE (IF k + 1 - i \in 1..8 THEN a[i] * b[k + 1 - i] ELSE 0) + column(k, i - 1)
        RECURSIVE carried(_, _)
        carried(k, carry) ==
            IF k > 16 THEN <<>>
            ELSE LET v == column(k, 8) + carry
                 IN  <<v % 1024>> \o carried(k + 1, v \div 1024)
        p == carried(1, 0)
        top == CHOOSE k \in 1..16 : p[k] # 0 /\ \A j \in (k + 1)..16 : p[j] = 0
        d == 10 * (top - 1) + Log2(p[top]) + 1 - 53
        bit(i) == (p[(i \div 10) + 1] \div (2 ^ (i % 10))) % 2
        up == /\ bit(d - 1) = 1
              /\ bit(d) = 1 \/ \E j \in 0..(d - 2) : bit(j) = 1
        kept(v, lo) == IF d >= lo + 20 THEN 0 ELSE IF d <= lo THEN v ELSE v - (v % (2 ^ (d - lo)))
        keep == <<kept(p[13] + 1024 * p[14], 120), kept(p[11] + 1024 * p[12], 100),
                  kept(p[9] + 1024 * p[10], 80), kept(p[7] + 1024 * p[8], 60)>>
        e == d - 60
        ulp == IF e < 20 THEN <<0, 0, 0, 2 ^ e>>
               ELSE IF e < 40 THEN <<0, 0, 2 ^ (e - 20), 0>>
               ELSE IF e < 60 THEN <<0, 2 ^ (e - 40), 0, 0>>
               ELSE <<2 ^ (e - 60), 0, 0, 0>>
    IN  IF x.m = ZeroMag \/ y.m = ZeroMag THEN FZero
        ELSE MkFloat(x.neg # y.neg, IF up THEN MagAdd(keep, ulp) ELSE keep)


(***************************************************************************)
(* Message text.  A message is the sequence of its whitespace-separated    *)
(* tokens: a mention <@u>, a word, or a numeric token (optional $, digits, *)
(* optional two-digit cents; cents = -1 when the token has no decimals).   *)
(***************************************************************************)
Bot == "BOT"
Mention(u) == [k |-> "m", u |-> u]
Word(w) == [k |-> "w", w |-> w]
Num(dollar, whole, cents) == [k |-> "n", dollar |-> dollar, whole |-> whole, cents |-> cents]
IsMention(t) == t.k = "m"
IsWord(t, ws) == t.k = "w" /\ t.w \in ws
IsNum(t) == t.k = "n"

\* The text of an amount column: "$" followed by the matched digits.
AmountText(whole, cents) == [whole |-> whole, cents |-> cents]
NumText(t) == AmountText(t.whole, t.cents)

\* An amount column whose text float() rejects
CorruptAmount == AmountText(0 - 1, 0 - 1)

\* The fallback of the except clause taken to be 1
ParseAmountFloatCorruptAsOne(a) ==
    IF a = CorruptAmount THEN MkFloat(FALSE, <<1, 0, 0, 0>>)
    ELSE FDivInt(100 * a.whole + (IF a.cents < 0 THEN 0 ELSE a.cents), 100)

\* float(amount_str) of bet['amount'].replace('$', '').replace(',', ''), and
\* 0 when float() raises
ParseAmountFloat(a) ==
    IF a = CorruptAmount THEN FZero
    ELSE FDivInt(100 * a.whole + (IF a.cents < 0 THEN 0 ELSE a.cents), 100)

(***************************************************************************)
(* Table "bets".  Columns kept: id, person1_id, person2_id, amount,        *)
(* description, status, winner_id, created_at, resolved_at.                *)
(***************************************************************************)
NoBet == [id |-> 0, person1_id |-> NoUser, person2_id |-> NoUser,
          amount |-> AmountText(0, -1), description |-> <<>>, status |-> "none",
          winner_id |-> NoUser, created_at |-> NoTime, resolved_at |-> NoTime]

\* INSERT INTO bets (...) VALUES (..., 'open', now, ...); returns the table
add_bet(table, person1_id, person2_id, amount, description, now) ==
    Append(table, [id |-> Len(table) + 1, person1_id |-> person1_id,
                   person2_id |-> person2_id, amount |-> amount,
                   description |-> description, status |-> "open",
                   winner_id |-> NoUser, created_at |-> now, resolved_at |-> NoTime])

\* SELECT * FROM bets WHERE id = ?
get_bet(table, bet_id) ==
    IF bet_id \in 1..Len(table) THEN table[bet_id] ELSE NoBet

\* A WHERE clause that forgets the status: id = ?
SettleWhereAnyStatus(table, bet_id) == bet_id \in 1..Len(table)

CancelWhereAnyStatus(table, bet_id) == bet_id \in 1..Len(table)

\* The WHERE clause of the two UPDATE statements: id = ? AND status = 'open'
SettleWhere(table, bet_id) ==
    bet_id \in 1..Len(table) /\ table[bet_id].status = "open"

CancelWhere(table, bet_id) ==
    bet_id \in 1..Len(table) /\ table[bet_id].status = "open"

\* settle_bet returning True whatever the UPDATE's rowcount is
settle_bet_always_true(table, bet_id, winner_id, now) ==
    [table |-> IF SettleWhere(table, bet_id)
               THEN [table EXCEPT ![bet_id].status = "settled",
                                  ![bet_id].winner_id = winner_id,
                                  ![bet_id].resolved_at = now]
               ELSE table,
     ret |-> TRUE]

\* UPDATE bets SET status = 'settled', winner_id = ?, resolved_at = ? WHERE ...
\* The statement and its commit take effect as one step: SQLite serialises
\* writers and shows readers only committed rows.
settle_bet(table, bet_id, winner_id, now) ==
    LET updated == IF SettleWhere(table, bet_id) THEN 1 ELSE 0
    IN  [table |-> IF updated > 0
                   THEN [table EXCEPT ![bet_id].status = "settled",
                                      ![bet_id].winner_id = winner_id,
                                      ![bet_id].resolved_at = now]
                   ELSE table,
         ret |-> updated > 0]

\* cancel_bet returning True whatever the UPDATE's rowcount is
cancel_bet_always_true(table, bet_id, now) ==
    [table |-> IF CancelWhere(table, bet_id)
               THEN [table EXCEPT ![bet_id].status = "cancelled",
                                  ![bet_id].resolved_at = now]
               ELSE table,
     ret |-> TRUE]

\* cancel_bet with an UPDATE that sets the status only
cancel_bet_status_only(table, bet_id, now) ==
    [table |-> IF CancelWhere(table, bet_id)
               THEN [table EXCEPT ![bet_id].status = "cancelled"]
               ELSE table,
     ret |-> CancelWhere(table, bet_id)]

\* UPDATE bets SET status = 'cancelled', resolved_at = ? WHERE ...
cancel_bet(table, bet_id, now) ==
    LET updated == IF CancelWhere(table, bet_id) THEN 1 ELSE 0
    IN  [table |-> IF updated > 0
                   THEN [table EXCEPT ![bet_id].status = "cancelled",
                                      ![bet_id].resolved_at = now]
                   ELSE table,
         ret |-> updated > 0]

(***************************************************************************)
(* The ledger.  A Python dict is the sequence of its items in insertion    *)
(* order.                                                                  *)
(***************************************************************************)
DictKeys(d) == {d[i].k : i \in 1..Len(d)}
DictHas(d, k) == k \in DictKeys(d)
DictGet(d, k) == d[CHOOSE i \in 1..Len(d) : d[i].k = k].v
DictPut(d, k, v) ==
    IF DictHas(d, k)
    THEN [i \in 1..Len(d) |-> IF d[i].k = k THEN [k |-> k, v |-> v] ELSE d[i]]
    ELSE Append(d, [k |-> k, v |-> v])
\* dict equality: the same keys with the same values, in any order
DictEq(d, e) ==
    DictKeys(d) = DictKeys(e) /\ \A k \in DictKeys(d) : DictGet(d, k) = DictGet(e, k)

\* The query of get_resolved_bets in place of the one of get_balances
SelectNotOpen(table) == SelectSeq(table, LAMBDA b : b.status # "open")

\* SELECT * FROM bets WHERE status = 'settled'
SelectSettled(table) == SelectSeq(table, LAMBDA b : b.status = "settled")

\* SELECT ... WHERE status = 'settled' AND (person1_id = ? OR person2_id = ?)
SelectSettledOf(table, user_id) ==
    SelectSeq(table, LAMBDA b : b.status = "settled"
                                 /\ (b.person1_id = user_id \/ b.person2_id = user_id))

LoserOf(bet) ==
    IF bet.winner_id = bet.person2_id THEN bet.person1_id ELSE bet.person2_id

\* The loop body with the loser's balance raised instead of lowered
BalanceStepLoserAdded(balances, bet) ==
    LET loser_id == IF bet.winner_id = bet.person2_id THEN bet.person1_id ELSE bet.person2_id
        amount == ParseAmountFloat(bet.amount)
        b1 == IF DictHas(balances, bet.winner_id) THEN balances
              ELSE DictPut(balances, bet.winner_id, FZero)
        b2 == DictPut(b1, bet.winner_id, FAdd(DictGet(b1, bet.winner_id), amount))
        b3 == IF DictHas(b2, loser_id) THEN b2 ELSE DictPut(b2, loser_id, FZero)
    IN  DictPut(b3, loser_id, FAdd(DictGet(b3, loser_id), amount))

\* The loop body with = in place of += and -=
BalanceStepOverwrite(balances, bet) ==
    LET loser_id == IF bet.winner_id = bet.person2_id THEN bet.person1_id ELSE bet.person2_id
        amount == ParseAmountFloat(bet.amount)
    IN  DictPut(DictPut(balances, bet.winner_id, amount), loser_id, FNeg(amount))

\* One pass of the loop body of get_balances
BalanceStep(balances, bet) ==
    LET winner_id == bet.winner_id
        loser_id == LoserOf(bet)
        amount == ParseAmountFloat(bet.amount)
        b1 == IF DictHas(balances, winner_id) THEN balances
              ELSE DictPut(balances, winner_id, FZero)
        b2 == DictPut(b1, winner_id, FAdd(DictGet(b1, winner_id), amount))
        b3 == IF DictHas(b2, loser_id) THEN b2 ELSE DictPut(b2, loser_id, FZero)
    IN  DictPut(b3, loser_id, FSub(DictGet(b3, loser_id), amount))

RECURSIVE BalancesScan(_)
BalancesScan(rows) ==
    IF rows = <<>> THEN <<>>
    ELSE BalanceStep(BalancesScan(SubSeq(rows, 1, Len(rows) - 1)), rows[Len(rows)])

get_balances(table) == BalancesScan(SelectSettled(table))

\* balances.get(user_id, {'name': 'Unknown', 'balance': 0})
get_user_balance(table, user_id) ==
    LET balances == get_balances(table)
    IN  IF DictHas(balances, user_id) THEN DictGet(balances, user_id) ELSE FZero

\* The loop body testing the winner against person1 instead of the user
DebtStepWinnerIsPerson1(debts, bet, user_id) ==
    LET other_id == IF bet.person1_id = user_id THEN bet.person2_id ELSE bet.person1_id
        amount == ParseAmountFloat(bet.amount)
        d1 == IF DictHas(debts, other_id) THEN debts ELSE DictPut(debts, other_id, FZero)
    IN  IF bet.winner_id = bet.person1_id
        THEN DictPut(d1, other_id, FAdd(DictGet(d1, other_id), amount))
        ELSE DictPut(d1, other_id, FSub(DictGet(d1, other_id), amount))

\* One pass of the loop body of get_user_debts
DebtStep(debts, bet, user_id) ==
    LET other_id == IF bet.person1_id = user_id THEN bet.person2_id ELSE bet.person1_id
        amount == ParseAmountFloat(bet.amount)
        d1 == IF DictHas(debts, other_id) THEN debts ELSE DictPut(debts, other_id, FZero)
    IN  IF bet.winner_id = user_id
        THEN DictPut(d1, other_id, FAdd(DictGet(d1, other_id), amount))
        ELSE DictPut(d1, other_id, FSub(DictGet(d1, other_id), amount))

RECURSIVE DebtsScan(_, _)
DebtsScan(rows, user_id) ==
    IF rows = <<>> THEN <<>>
    ELSE DebtStep(DebtsScan(SubSeq(rows, 1, Len(rows) - 1), user_id), rows[Len(rows)], user_id)

get_user_debts(table, user_id) == DebtsScan(SelectSettledOf(table, user_id), user_id)

\* One pass of the first loop of get_all_records
RecordStep(records, bet) ==
    LET winner_id == bet.winner_id
        loser_id == LoserOf(bet)
        r1 == IF DictHas(records, winner_id) THEN records
              ELSE DictPut(records, winner_id, [wins |-> 0, losses |-> 0])
        w == DictGet(r1, winner_id)
        r2 == DictPut(r1, winner_id, [w EXCEPT !.wins = @ + 1])
        r3 == IF DictHas(r2, loser_id) THEN r2
              ELSE DictPut(r2, loser_id, [wins |-> 0, losses |-> 0])
        l == DictGet(r3, loser_id)
    IN  DictPut(r3, loser_id, [l EXCEPT !.losses = @ + 1])

RECURSIVE RecordsScan(_)
RecordsScan(rows) ==
    IF rows = <<>> THEN <<>>
    ELSE RecordStep(RecordsScan(SubSeq(rows, 1, Len(rows) - 1)), rows[Len(rows)])

\* (wins / total * 100) if total > 0 else 0
WinPct(wins, total) == IF total > 0 THEN FMulInt(FDivInt(wins, total), 100) ELSE FZero

\* The second loop of get_all_records: total and win_pct for every user
WithPct(records) ==
    [i \in 1..Len(records) |->
        [k |-> records[i].k,
         v |-> [wins |-> records[i].v.wins, losses |-> records[i].v.losses,
                total |-> records[i].v.wins + records[i].v.losses,
                win_pct |-> WinPct(records[i].v.wins,
                                   records[i].v.wins + records[i].v.losses)]]]

RecordsOver(rows) == WithPct(RecordsScan(rows))

get_all_records(table) == RecordsOver(SelectSettled(table))


(***************************************************************************)
(* parse_bet_message: the ordered cascade of six rules over the tokens.    *)
(***************************************************************************)
NoParse == [ok |-> FALSE, rule |-> 0, person1_id |-> NoUser, person2_id |-> NoUser,
            amount |-> AmountText(0, -1), description |-> <<>>]
Parsed(rule, p1, p2, amount, description) ==
    [ok |-> TRUE, rule |-> rule, person1_id |-> p1, person2_id |-> p2,
     amount |-> amount, description |-> description]

MinOf(S) == CHOOSE x \in S : \A y \in S : x <= y
Rest(t, i) == SubSeq(t, i, Len(t))
OrDefault(desc, w) == IF desc = <<>> THEN <<Word(w)>> ELSE desc

\* re.sub(f'<@{bot_user_id}>', '', text).strip()
StripBot(text) == SelectSeq(text, LAMBDA t : ~(IsMention(t) /\ t.u = Bot))

\* <@(\w+)>\s+(?:vs\.?|versus)\s+<@(\w+)>\s+\$?(\d+(?:\.\d{2})?)\s+(.+)
Rule1At(t) == {i \in 1..Len(t) : /\ i + 4 <= Len(t)
                                 /\ IsMention(t[i])
                                 /\ IsWord(t[i + 1], {"vs", "vs.", "versus"})
                                 /\ IsMention(t[i + 2])
                                 /\ IsNum(t[i + 3])}
Rule1(t) == LET i == MinOf(Rule1At(t))
            IN  Parsed(1, t[i].u, t[i + 2].u, NumText(t[i + 3]), Rest(t, i + 4))

\* The owes rule taking the creditor for person1 and the debtor for person2
Rule2CreditorFirst(t) ==
    LET i == MinOf({j \in 1..Len(t) : /\ j + 3 <= Len(t)
                                      /\ IsMention(t[j])
                                      /\ IsWord(t[j + 1], {"owes"})
                                      /\ IsMention(t[j + 2])
                                      /\ IsNum(t[j + 3])})
        rest == Rest(t, i + 4)
        desc == IF Len(rest) >= 2 /\ IsWord(rest[1], {"for"}) THEN Tail(rest) ELSE rest
    IN  Parsed(2, t[i + 2].u, t[i].u, NumText(t[i + 3]), OrDefault(desc, "debt"))

\* <@(\w+)>\s+owes\s+<@(\w+)>\s+\$?(\d+(?:\.\d{2})?)\s*(?:for\s+)?(.*)
Rule2At(t) == {i \in 1..Len(t) : /\ i + 3 <= Len(t)
                                 /\ IsMention(t[i])
                                 /\ IsWord(t[i + 1], {"owes"})
                                 /\ IsMention(t[i + 2])
                                 /\ IsNum(t[i + 3])}
Rule2(t) == LET i == MinOf(Rule2At(t))
                rest == Rest(t, i + 4)
                desc == IF Len(rest) >= 2 /\ IsWord(rest[1], {"for"}) THEN Tail(rest) ELSE rest
            IN  Parsed(2, t[i].u, t[i + 2].u, NumText(t[i + 3]), OrDefault(desc, "debt"))

\* (?:i\s+)?bet\s+<@(\w+)>\s+\$?(\d+(?:\.\d{2})?)\s*(.*)
Rule3At(t) == {i \in 1..Len(t) : /\ i + 2 <= Len(t)
                                 /\ IsWord(t[i], {"bet"})
                                 /\ IsMention(t[i + 1])
                                 /\ IsNum(t[i + 2])}
Rule3(t, sender_id) ==
    LET i == MinOf(Rule3At(t))
    IN  Parsed(3, sender_id, t[i + 1].u, NumText(t[i + 2]), OrDefault(Rest(t, i + 3), "bet"))

\* <@(\w+)>\s+\$?(\d+(?:\.\d{2})?)\s+(?:on|that|for)?\s*(.*)
Rule4At(t) == {i \in 1..Len(t) : /\ i + 2 <= Len(t)
                                 /\ IsMention(t[i])
                                 /\ IsNum(t[i + 1])}
Rule4(t, sender_id) ==
    LET i == MinOf(Rule4At(t))
        rest == Rest(t, i + 2)
        desc == IF IsWord(rest[1], {"on", "that", "for"}) THEN Tail(rest) ELSE rest
    IN  Parsed(4, sender_id, t[i].u, NumText(t[i + 1]), OrDefault(desc, "bet"))

\* \$?(\d+(?:\.\d{2})?)\s+(?:with|against|vs)?\s*<@(\w+)>\s*(.*)
Rule5Mention(t, i) ==
    IF i + 1 <= Len(t) /\ IsMention(t[i + 1]) THEN i + 1
    ELSE IF /\ i + 2 <= Len(t)
            /\ IsWord(t[i + 1], {"with", "against", "vs"})
            /\ IsMention(t[i + 2]) THEN i + 2
    ELSE 0
Rule5At(t) == {i \in 1..Len(t) : IsNum(t[i]) /\ Rule5Mention(t, i) > 0}
Rule5(t, sender_id) ==
    LET i == MinOf(Rule5At(t))
        j == Rule5Mention(t, i)
    IN  Parsed(5, sender_id, t[j].u, NumText(t[i]), OrDefault(Rest(t, j + 1), "bet"))

\* re.findall(r'<@(\w+)>', text), then the filter m != bot_user_id
Mentions(t) ==
    LET ms == SelectSeq(t, LAMBDA x : IsMention(x) /\ x.u # Bot)
    IN  [i \in 1..Len(ms) |-> ms[i].u]

\* re.findall(r'\$(\d+(?:\.\d{2})?)', text)
DollarAmounts(t) ==
    LET ds == SelectSeq(t, LAMBDA x : IsNum(x) /\ x.dollar)
    IN  [i \in 1..Len(ds) |-> NumText(ds[i])]

\* re.findall(r'(?:^|[\s,])(\d{2,})(?:[\s,.]|$)', text): bare tokens of two or
\* more digits; a match consumes the separator after it, so a bare token
\* that directly follows a matched token without decimals is not found.
RECURSIVE StandaloneHit(_, _)
StandaloneHit(t, i) ==
    /\ IsNum(t[i]) /\ ~t[i].dollar /\ t[i].whole >= 10
    /\ ~(i > 1 /\ StandaloneHit(t, i - 1) /\ t[i - 1].cents < 0)
StandaloneAmounts(t) ==
    LET idx == SelectSeq([i \in 1..Len(t) |-> i], LAMBDA i : StandaloneHit(t, i))
    IN  [n \in 1..Len(idx) |-> AmountText(t[idx[n]].whole, -1)]

\* float(a) compared through the cents it denotes
AmountCents(a) == 100 * a.whole + (IF a.cents < 0 THEN 0 ELSE a.cents)

\* amounts[0] after the filter, without the sort
FirstAmount(amounts) ==
    LET ok == SelectSeq(amounts, LAMBDA a : 100 * a.whole + (IF a.cents < 0 THEN 0 ELSE a.cents) >= 100)
    IN  IF ok = <<>> THEN <<>> ELSE <<ok[1]>>

\* The largest amount without the filter float(a) >= 1
LargestUnfiltered(amounts) ==
    LET val(a) == 100 * a.whole + (IF a.cents < 0 THEN 0 ELSE a.cents)
        best == CHOOSE i \in 1..Len(amounts) :
                    /\ \A j \in 1..Len(amounts) : val(amounts[j]) <= val(amounts[i])
                    /\ \A j \in 1..(i - 1) : val(amounts[j]) < val(amounts[i])
    IN  IF amounts = <<>> THEN <<>> ELSE <<amounts[best]>>

\* sorted(amounts, key=float, reverse=True)[0] after the filter float(a) >= 1:
\* the first of the largest values
LargestAmount(amounts) ==
    LET ok == SelectSeq(amounts, LAMBDA a : AmountCents(a) >= 100)
        best == CHOOSE i \in 1..Len(ok) :
                    /\ \A j \in 1..Len(ok) : AmountCents(ok[j]) <= AmountCents(ok[i])
                    /\ \A j \in 1..(i - 1) : AmountCents(ok[j]) < AmountCents(ok[i])
    IN  IF ok = <<>> THEN <<>> ELSE <<ok[best]>>

\* The description of the last-resort rule: mentions removed, the first
\* token spelling the chosen amount removed, a leading boilerplate word cut.
AmountTokenAt(t, a) ==
    {i \in 1..Len(t) : IsNum(t[i]) /\ t[i].whole = a.whole
                       /\ (a.cents < 0 \/ t[i].cents = a.cents)}
LastResortDesc(t, a) ==
    LET hit == AmountTokenAt(t, a)
        first == IF hit = {} THEN 0 ELSE MinOf(hit)
        idx == SelectSeq([i \in 1..Len(t) |-> i],
                         LAMBDA i : ~IsMention(t[i]) /\ i # first)
        d == [n \in 1..Len(idx) |-> t[idx[n]]]
    IN  IF Len(d) >= 2 /\ IsWord(d[1], {"i"}) /\ IsWord(d[2], {"bet"}) THEN Tail(Tail(d))
        ELSE IF d # <<>> /\ IsWord(d[1], {"bet", "on", "that", "for"}) THEN Tail(d)
        ELSE d

Rule6(t, sender_id) ==
    LET mentions == Mentions(t)
        amounts == LargestAmount(DollarAmounts(t) \o StandaloneAmounts(t))
    IN  IF mentions # <<>> /\ amounts # <<>>
        THEN LET bet_amount == amounts[1]
                 desc == OrDefault(LastResortDesc(t, bet_amount), "bet")
             IN  IF Len(mentions) >= 2
                 THEN Parsed(6, mentions[1], mentions[2], bet_amount, desc)
                 ELSE Parsed(6, sender_id, mentions[1], bet_amount, desc)
        ELSE NoParse

\* The cascade with the mention-amount rule tried before the vs rule
parse_bet_message_rule4_first(text, sender_id) ==
    LET t == StripBot(text)
    IN  IF Rule4At(t) # {} THEN Rule4(t, sender_id)
        ELSE IF Rule1At(t) # {} THEN Rule1(t)
        ELSE IF Rule2At(t) # {} THEN Rule2(t)
        ELSE IF Rule3At(t) # {} THEN Rule3(t, sender_id)
        ELSE IF Rule5At(t) # {} THEN Rule5(t, sender_id)
        ELSE Rule6(t, sender_id)

parse_bet_message(text, sender_id) ==
    LET t == StripBot(text)
    IN  IF Rule1At(t) # {} THEN Rule1(t)
        ELSE IF Rule2At(t) # {} THEN Rule2(t)
        ELSE IF Rule3At(t) # {} THEN Rule3(t, sender_id)
        ELSE IF Rule4At(t) # {} THEN Rule4(t, sender_id)
        ELSE IF Rule5At(t) # {} THEN Rule5(t, sender_id)
        ELSE Rule6(t, sender_id)


(***************************************************************************)
(* handle_mention.  Each thread of the listener pool runs one handler at a *)
(* time; th[t] holds its position and the locals that outlive a store      *)
(* call; once the handler has replied it keeps what the reply and the      *)
(* store call's result were (the timestamp only of an UPDATE that took     *)
(* effect).  A step is what a handler does between two accesses to the table  *)
(* or the clock: the text matching, the replies and the user-name lookups  *)
(* read no shared state and belong to the step of the access before them.  *)
(***************************************************************************)
MaxBets == 1          \* rows the concurrent specification creates
MaxLedgerBets == 3    \* rows the single-threaded specification creates
MaxClock == 1         \* readings the clock advances through

IdleTh == [pc |-> "idle", user |-> NoUser, text |-> <<>>, bet_id |-> 0, winner_id |-> NoUser,
           bet_data |-> NoParse, now |-> NoTime, ret |-> "none", said |-> "none",
           balance |-> FZero, debts |-> <<>>, odds |-> FZero, legs |-> <<>>, parlay_id |-> 0,
           games |-> <<>>, game |-> [id |-> 0]]

Msg(user, text) == [user |-> user, text |-> text]

\* Texts that none of the command branches before the new-wager branch match.
ConcMessages ==
    { Msg("A", <<Mention(Bot), Mention("A"), Word("vs"), Mention("B"), Num(TRUE, 5, -1), Word("x")>>),
      Msg("A", <<Mention(Bot), Word("hello")>>) }

LedgerMessages ==
    { Msg("A", <<Mention(Bot), Mention("A"), Word("vs"), Mention("B"), Num(TRUE, 0, 10), Word("x")>>),
      Msg("A", <<Mention(Bot), Mention("A"), Word("vs"), Mention("C"), Num(TRUE, 0, 20), Word("x")>>),
      Msg("B", <<Mention(Bot), Mention("B"), Word("owes"), Mention("A"), Num(TRUE, 20, -1)>>),
      Msg("A", <<Mention(Bot), Word("bet"), Mention("A"), Num(TRUE, 5, -1)>>),
      Msg("C", <<Mention(Bot), Word("thanks")>>) }

Ready(t) == th[t].pc \in {"idle", "done"}
InFlight == Cardinality({t \in Threads : th[t].pc = "add_insert"})

\* The checks without the participant check
SettleCheckNoParticipant(bet, winner_id) ==
    IF bet = NoBet THEN "not_found"
    ELSE IF bet.status # "open" THEN "already"
    ELSE "ok"

\* The checks without the status check
SettleCheckNoStatus(bet, winner_id) ==
    IF bet = NoBet THEN "not_found"
    ELSE IF winner_id \notin {bet.person1_id, bet.person2_id} THEN "not_participant"
    ELSE "ok"

\* The three checks of the settle branch on the row get_bet returned
SettleCheck(bet, winner_id) ==
    IF bet = NoBet THEN "not_found"
    ELSE IF bet.status # "open" THEN "already"
    ELSE IF winner_id \notin {bet.person1_id, bet.person2_id} THEN "not_participant"
    ELSE "ok"

\* The settle branch up to the call of settle_bet: one of settle_patterns
\* gave bet_id and winner_id, get_bet read the row, the checks ran.
ReceiveSettle(t, ids) ==
    /\ Ready(t)
    /\ \E bet_id \in ids, winner_id \in Users :
         LET verdict == SettleCheck(get_bet(bets, bet_id), winner_id)
         IN  th' = [th EXCEPT ![t] =
                      IF verdict = "ok"
                      THEN [IdleTh EXCEPT !.pc = "settle_now", !.bet_id = bet_id,
                                          !.winner_id = winner_id]
                      ELSE [IdleTh EXCEPT !.pc = "done", !.bet_id = bet_id,
                                          !.winner_id = winner_id, !.said = verdict]]
    /\ UNCHANGED <<bets, clock, parlays, tg_parlays>>

\* settle_bet evaluates datetime.now() before the UPDATE is executed
SettleBetNow(t) ==
    /\ th[t].pc = "settle_now"
    /\ th' = [th EXCEPT ![t] = [@ EXCEPT !.pc = "settle_update", !.now = clock]]
    /\ UNCHANGED <<bets, clock, parlays, tg_parlays>>

\* The UPDATE of settle_bet; the handler drops the value it returns and
\* announces the settlement.
SettleBetUpdate(t) ==
    /\ th[t].pc = "settle_update"
    /\ LET r == settle_bet(bets, th[t].bet_id, th[t].winner_id, th[t].now)
       IN  /\ bets' = r.table
           /\ th' = [th EXCEPT ![t] = [@ EXCEPT !.pc = "done",
                                                !.now = IF r.ret THEN @ ELSE NoTime,
                                                !.ret = IF r.ret THEN "true" ELSE "false",
                                                !.said = "settled"]]
    /\ UNCHANGED <<clock, parlays, tg_parlays>>

\* The cancel branch: r'cancel\s+(\d+)' matched; cancel_bet reads the clock
ReceiveCancel(t, ids) ==
    /\ Ready(t)
    /\ \E bet_id \in ids :
         th' = [th EXCEPT ![t] = [IdleTh EXCEPT !.pc = "cancel_update", !.bet_id = bet_id,
                                                !.now = clock]]
    /\ UNCHANGED <<bets, clock, parlays, tg_parlays>>

CancelBetUpdate(t) ==
    /\ th[t].pc = "cancel_update"
    /\ LET r == cancel_bet(bets, th[t].bet_id, th[t].now)
       IN  /\ bets' = r.table
           /\ th' = [th EXCEPT ![t] = [@ EXCEPT !.pc = "done",
                                                !.now = IF r.ret THEN @ ELSE NoTime,
                                                !.ret = IF r.ret THEN "true" ELSE "false",
                                                !.said = IF r.ret THEN "cancelled"
                                                         ELSE "cancel_failed"]]
    /\ UNCHANGED <<clock, parlays, tg_parlays>>

\* The new-wager branch: parse_bet_message on the text; add_bet reads the clock
ReceiveNewBet(t, msgs, max) ==
    /\ Ready(t)
    /\ Len(bets) + InFlight < max
    /\ \E msg \in msgs :
         LET bet_data == parse_bet_message(msg.text, msg.user)
         IN  th' = [th EXCEPT ![t] =
                      IF bet_data.ok
                      THEN [IdleTh EXCEPT !.pc = "add_insert", !.bet_data = bet_data,
                                          !.now = clock]
                      ELSE [IdleTh EXCEPT !.pc = "done", !.said = "not_understood"]]
    /\ UNCHANGED <<bets, clock, parlays, tg_parlays>>

\* The INSERT of add_bet and the reply with the new id
AddBetInsert(t) ==
    /\ th[t].pc = "add_insert"
    /\ LET d == th[t].bet_data
       IN  bets' = add_bet(bets, d.person1_id, d.person2_id, d.amount, d.description, th[t].now)
    /\ th' = [th EXCEPT ![t] = [IdleTh EXCEPT !.pc = "done", !.bet_id = Len(bets) + 1,
                                              !.said = "recorded"]]
    /\ UNCHANGED <<clock, parlays, tg_parlays>>

\* Time passes between two readings of datetime.now()
Tick ==
    /\ clock < MaxClock
    /\ clock' = clock + 1
    /\ UNCHANGED <<bets, th, parlays, tg_parlays>>

NoParlays == parlays = <<>> /\ tg_parlays = <<>>

Init == bets = <<>> /\ clock = 0 /\ th = [t \in Threads |-> IdleTh] /\ NoParlays

\* Handlers of the listener pool interleave at their store calls.
Next ==
    \/ \E t \in Threads :
         \/ ReceiveSettle(t, 1..(MaxBets + 1))
         \/ SettleBetNow(t)
         \/ SettleBetUpdate(t)
         \/ ReceiveCancel(t, 1..(MaxBets + 1))
         \/ CancelBetUpdate(t)
         \/ ReceiveNewBet(t, ConcMessages, MaxBets)
         \/ AddBetInsert(t)
    \/ Tick

Spec == Init /\ [][Next]_vars

(***************************************************************************)
(* The single-threaded dispatch: one event at a time, its handler run to   *)
(* completion as one step.  The ledger reads no timestamp, and the clock   *)
(* stands still here.                                                      *)
(***************************************************************************)
SettleCommand(ids) ==
    /\ \E bet_id \in ids, winner_id \in Users :
         bets' = IF SettleCheck(get_bet(bets, bet_id), winner_id) = "ok"
                 THEN settle_bet(bets, bet_id, winner_id, clock).table
                 ELSE bets
    /\ UNCHANGED <<clock, th, parlays, tg_parlays>>

CancelCommand(ids) ==
    /\ \E bet_id \in ids : bets' = cancel_bet(bets, bet_id, clock).table
    /\ UNCHANGED <<clock, th, parlays, tg_parlays>>

NewBetCommand(msgs, max) ==
    /\ Len(bets) < max
    /\ \E msg \in msgs :
         LET d == parse_bet_message(msg.text, msg.user)
         IN  bets' = IF d.ok
                     THEN add_bet(bets, d.person1_id, d.person2_id, d.amount,
                                  d.description, clock)
                     ELSE bets
    /\ UNCHANGED <<clock, th, parlays, tg_parlays>>

LedgerNext ==
    \/ SettleCommand(1..MaxLedgerBets)
    \/ CancelCommand(1..MaxLedgerBets)
    \/ NewBetCommand(LedgerMessages, MaxLedgerBets)

LedgerSpec == Init /\ [][LedgerNext]_vars

(***************************************************************************)
(* The new-wager branch on one event at a time, for every text of a        *)
(* bounded set of token sequences: the event is drawn first, the handler   *)
(* then runs to completion as one step and keeps the event it handled.     *)
(***************************************************************************)
MaxTextLen == 5       \* tokens of a drawn message text

ParseTokens ==
    { Mention("A"), Mention("B"), Word("vs"), Word("bet"), Word("x"),
      Num(TRUE, 20, -1), Num(FALSE, 50, -1), Num(TRUE, 0, -1) }

DrawnMessages ==
    { Msg("C", text) : text \in UNION { [1..n -> ParseTokens] : n \in 0..MaxTextLen } }

\* Texts with the bot's mention, the other keywords and the other shapes of
\* numeric token.
ExampleMessages ==
    { Msg("C", <<Mention(Bot), Mention("A"), Word("owes"), Mention("B"), Num(TRUE, 20, -1)>>),
      Msg("C", <<Mention(Bot), Mention("A"), Word("vs"), Mention("B"), Num(TRUE, 50, -1), Word("finals")>>),
      Msg("C", <<Mention(Bot), Mention("A"), Mention("B"), Word("lost"), Num(TRUE, 20, -1), Word("not"), Num(FALSE, 7, -1)>>),
      Msg("C", <<Mention(Bot), Mention("A"), Mention("B"), Word("lost"), Num(FALSE, 7, -1), Word("not"), Num(TRUE, 20, -1)>>),
      Msg("C", <<Mention(Bot), Mention("A"), Mention("B"), Word("lost"), Num(TRUE, 20, -1), Word("not"), Num(FALSE, 50, -1)>>),
      Msg("C", <<Mention(Bot), Mention("A"), Word("x"), Num(TRUE, 0, 50), Num(TRUE, 20, -1), Num(FALSE, 20, 50)>>),
      Msg("C", <<Mention("A"), Mention(Bot), Word("vs"), Mention("B"), Num(FALSE, 20, 50), Word("x")>>),
      Msg("C", <<Mention(Bot), Mention(Bot), Mention("A"), Word("x"), Num(TRUE, 0, 50)>>),
      Msg("C", <<Mention(Bot), Word("i"), Word("bet"), Mention("A"), Num(FALSE, 7, -1), Word("on"), Word("x")>>),
      Msg("C", <<Mention(Bot), Num(TRUE, 20, -1), Word("with"), Mention("A"), Word("for"), Word("x")>>),
      Msg("C", <<Mention(Bot), Mention("A"), Num(FALSE, 7, -1), Word("on"), Word("x")>>),
      Msg("A", <<Mention(Bot), Mention("A"), Mention("A"), Num(TRUE, 20, -1)>>),
      Msg("C", <<Mention(Bot), Word("hello")>>) }

ParseMessages == DrawnMessages \cup ExampleMessages

\* The new-wager branch of handle_mention on the event of thread t
NewBetEvent(t) ==
    /\ th[t].pc = "event"
    /\ LET bet_data == parse_bet_message(th[t].text, th[t].user)
       IN  IF bet_data.ok
           THEN /\ bets' = add_bet(bets, bet_data.person1_id, bet_data.person2_id,
                                   bet_data.amount, bet_data.description, clock)
                /\ th' = [th EXCEPT ![t] = [@ EXCEPT !.pc = "done", !.bet_data = bet_data,
                                                     !.bet_id = Len(bets) + 1,
                                                     !.said = "recorded"]]
           ELSE /\ bets' = bets
                /\ th' = [th EXCEPT ![t] = [@ EXCEPT !.pc = "done", !.said = "not_understood"]]
    /\ UNCHANGED <<clock, parlays, tg_parlays>>

ParseInit ==
    \E msg \in ParseMessages :
        /\ bets = <<>>
        /\ clock = 0
        /\ NoParlays
        /\ th = [t \in Threads |->
                   IF t = 1 THEN [IdleTh EXCEPT !.pc = "event", !.user = msg.user,
                                                !.text = msg.text]
                   ELSE IdleTh]

ParseNext == \E t \in Threads : NewBetEvent(t)

ParseSpec == ParseInit /\ [][ParseNext]_vars

(***************************************************************************)
(* Text normalisation on the characters of a text:                         *)
(* re.sub(f'<@{bot_user_id}>', '', text).strip().  The texts are drawn as   *)
(* runs of pieces: the bot's mention, its two halves, a blank, a letter.   *)
(***************************************************************************)
MaxPieces == 3        \* pieces a drawn text is put together from

BotMention == <<"<", "@", "B", "O", "T", ">">>
Pieces == { BotMention, <<"<", "@">>, <<"B", "O", "T", ">">>, <<" ">>, <<"x">> }

RECURSIVE Flatten(_)
Flatten(q) == IF q = <<>> THEN <<>> ELSE Head(q) \o Flatten(Tail(q))

RawTexts == { Flatten(q) : q \in UNION { [1..n -> Pieces] : n \in 0..MaxPieces } }

\* re.sub(pattern, '', text): the matches are found from left to right in
\* the text as it was given, each search resuming after the previous match.
RECURSIVE RemoveAll(_, _)
RemoveAll(pattern, text) ==
    IF Len(text) < Len(pattern) THEN text
    ELSE IF SubSeq(text, 1, Len(pattern)) = pattern
         THEN RemoveAll(pattern, SubSeq(text, Len(pattern) + 1, Len(text)))
         ELSE <<Head(text)>> \o RemoveAll(pattern, Tail(text))

\* str.strip(); of its whitespace the blank and the newline are drawn
RECURSIVE LStrip(_)
LStrip(text) == IF text # <<>> /\ Head(text) \in {" ", "\n"} THEN LStrip(Tail(text)) ELSE text
RECURSIVE RStrip(_)
RStrip(text) ==
    IF text # <<>> /\ text[Len(text)] \in {" ", "\n"} THEN RStrip(SubSeq(text, 1, Len(text) - 1))
    ELSE text
Strip(text) == RStrip(LStrip(text))

Normalize(text) == Strip(RemoveAll(BotMention, text))

\* The normalisation applied to the text thread t holds, a first and a
\* second time.
NormalizeText(t) ==
    /\ th[t].pc \in {"raw", "once"}
    /\ th' = [th EXCEPT ![t] = [@ EXCEPT !.pc = IF th[t].pc = "raw" THEN "once" ELSE "twice",
                                         !.text = Normalize(th[t].text)]]
    /\ UNCHANGED <<bets, clock, parlays, tg_parlays>>

NormInit ==
    \E text \in RawTexts :
        /\ bets = <<>>
        /\ clock = 0
        /\ NoParlays
        /\ th = [t \in Threads |->
                   IF t = 1 THEN [IdleTh EXCEPT !.pc = "raw", !.text = text] ELSE IdleTh]

NormNext == \E t \in Threads : NormalizeText(t)

NormSpec == NormInit /\ [][NormNext]_vars

(***************************************************************************)
(* The balance command over a database file that already holds settled     *)
(* wagers, some with an amount column that is not a number (init_db keeps  *)
(* an existing table).                                                     *)
(***************************************************************************)
MaxAggRows == 2       \* rows of a drawn table

AggRows ==
    { [id |-> 0, person1_id |-> p[1], person2_id |-> p[2], amount |-> a,
       description |-> <<Word("x")>>, status |-> "settled", winner_id |-> w,
       created_at |-> 0, resolved_at |-> 0] :
         p \in {<<"A", "B">>, <<"C", "A">>},
         a \in {AmountText(5, 0 - 1), AmountText(0, 10), CorruptAmount},
         w \in {"A", "B", "C"} }

AggTables ==
    UNION { { [i \in 1..n |-> [q[i] EXCEPT !.id = i]] :
                q \in [1..n -> {r \in AggRows : r.winner_id \in {r.person1_id, r.person2_id}}] }
            : n \in 0..MaxAggRows }

\* The balance command: get_user_balance and get_user_debts of the sender
BalanceCommand(t) ==
    /\ Ready(t)
    /\ \E user_id \in Users :
         th' = [th EXCEPT ![t] = [IdleTh EXCEPT !.pc = "done", !.user = user_id,
                                                !.balance = get_user_balance(bets, user_id),
                                                !.debts = get_user_debts(bets, user_id),
                                                !.said = "balance"]]
    /\ UNCHANGED <<bets, clock, parlays, tg_parlays>>

AggInit ==
    /\ bets \in AggTables
    /\ clock = 0
    /\ NoParlays
    /\ th = [t \in Threads |-> IdleTh]

AggNext == \E t \in Threads : BalanceCommand(t)

AggSpec == AggInit /\ [][AggNext]_vars

(***************************************************************************)
(* parse_odds on the characters of a token.  The tokens are drawn as runs  *)
(* of pieces: a sign, a digit, a decimal fraction, a blank, a letter.      *)
(***************************************************************************)
MaxOddsPieces == 3    \* pieces a drawn odds token is put together from

DigitChars == {"0", "1", "2", "3", "4", "5", "6", "7", "8", "9"}
IsDigits(s) == s # <<>> /\ \A i \in 1..Len(s) : s[i] \in DigitChars

\* The value of a run of decimal digits
RECURSIVE DigitsValue(_)
DigitsValue(s) ==
    LET c == s[Len(s)]
        value == CASE c = "0" -> 0 [] c = "1" -> 1 [] c = "2" -> 2 [] c = "3" -> 3 [] c = "4" -> 4
                   [] c = "5" -> 5 [] c = "6" -> 6 [] c = "7" -> 7 [] c = "8" -> 8 [] c = "9" -> 9
    IN  IF s = <<>> THEN 0 ELSE 10 * DigitsValue(SubSeq(s, 1, Len(s) - 1)) + value

FOne == FromInt(1)

\* float(s) succeeds, for s without sign, exponent or blank at either end
FloatParses(s) ==
    /\ \A i \in 1..Len(s) : s[i] \in DigitChars \cup {"."}
    /\ Cardinality({i \in 1..Len(s) : s[i] = "."}) <= 1
    /\ \E i \in 1..Len(s) : s[i] \in DigitChars

\* float(s) of digits with one decimal point: the double nearest the decimal
FloatOf(s) ==
    LET RECURSIVE GCD(_, _)
        GCD(a, b) == IF b = 0 THEN a ELSE GCD(b, a % b)
        dot == CHOOSE i \in 1..Len(s) : s[i] = "."
        frac == SubSeq(s, dot + 1, Len(s))
        n == DigitsValue(SubSeq(s, 1, dot - 1) \o frac)
        d == 10 ^ Len(frac)
        g == GCD(n, d)
    IN  FDivInt(n \div g, d \div g)

\* int(s) succeeds: blanks around an optional minus and digits (every plus
\* has been replaced away)
IntParses(s) ==
    LET u == Strip(s)
    IN  IsDigits(IF u # <<>> /\ u[1] = "-" THEN Tail(u) ELSE u)

IntOf(s) ==
    LET u == Strip(s)
    IN  IF u[1] = "-" THEN 0 - DigitsValue(Tail(u)) ELSE DigitsValue(u)

parse_odds(odds_str) ==
    LET s == Strip(odds_str)
        signed == s # <<>> /\ s[1] \in {"+", "-"}
        t == RemoveAll(<<"+">>, s)
    IN  IF (\E i \in 1..Len(s) : s[i] = ".") /\ ~signed /\ FloatParses(s) THEN FloatOf(s)
        ELSE IF IntParses(t)
             THEN LET odds_int == IntOf(t)
                  IN  IF odds_int > 0 THEN FAdd(FOne, FDivInt(odds_int, 100))
                      ELSE IF odds_int = 0 THEN FOne    \* ZeroDivisionError, caught
                      ELSE FAdd(FOne, FDivInt(100, 0 - odds_int))
             ELSE FOne

OddsTokens ==
    LET pieces == { <<"+">>, <<"-">>, <<"0">>, <<"5">>, <<".", "5">>, <<" ">>, <<"x">> }
    IN  { Flatten(q) : q \in UNION { [1..n -> pieces] : n \in 0..MaxOddsPieces } }

\* One call parse_odds(odds_str) on the token thread t holds
ParseOddsCall(t) ==
    /\ th[t].pc = "odds"
    /\ th' = [th EXCEPT ![t] = [@ EXCEPT !.pc = "done", !.odds = parse_odds(th[t].text)]]
    /\ UNCHANGED <<bets, clock, parlays, tg_parlays>>

OddsInit ==
    \E odds_str \in OddsTokens :
        /\ bets = <<>>
        /\ clock = 0
        /\ NoParlays
        /\ th = [t \in Threads |->
                   IF t = 1 THEN [IdleTh EXCEPT !.pc = "odds", !.text = odds_str] ELSE IdleTh]

OddsNext == \E t \in Threads : ParseOddsCall(t)

OddsSpec == OddsInit /\ [][OddsNext]_vars

(***************************************************************************)
(* parse_parlay_text of bot.py and of telegram_bot.py on the characters    *)
(* of a text.  A leg is its pick text and its decimal odds.                *)
(***************************************************************************)
\* str.split(sep) for a one-character separator
RECURSIVE Split(_, _)
Split(text, sep) ==
    IF \A i \in 1..Len(text) : text[i] # sep THEN <<text>>
    ELSE LET i == CHOOSE k \in 1..Len(text) :
                      text[k] = sep /\ \A j \in 1..(k - 1) : text[j] # sep
         IN  <<SubSeq(text, 1, i - 1)>> \o Split(SubSeq(text, i + 1, Len(text)), sep)

\* str.lower()
Lower(text) ==
    LET upper == <<"A", "B", "C", "D", "E", "F", "G", "H", "I", "J", "K", "L", "M",
                   "N", "O", "P", "Q", "R", "S", "T", "U", "V", "W", "X", "Y", "Z">>
        lower == <<"a", "b", "c", "d", "e", "f", "g", "h", "i", "j", "k", "l", "m",
                   "n", "o", "p", "q", "r", "s", "t", "u", "v", "w", "x", "y", "z">>
    IN  [i \in 1..Len(text) |->
            IF \E k \in 1..26 : upper[k] = text[i]
            THEN lower[CHOOSE k \in 1..26 : upper[k] = text[i]]
            ELSE text[i]]

\* sub in text
Contains(text, sub) ==
    \E i \in 0..(Len(text) - Len(sub)) : SubSeq(text, i + 1, i + Len(sub)) = sub

\* [+-]?\d+\.?\d*
IsNumber(s) ==
    LET body == IF s # <<>> /\ s[1] \in {"+", "-"} THEN Tail(s) ELSE s
    IN  /\ body # <<>> /\ body[1] \in DigitChars
        /\ \A i \in 1..Len(body) : body[i] \in DigitChars \cup {"."}
        /\ Cardinality({i \in 1..Len(body) : body[i] = "."}) <= 1

\* \d+\.\d+, and \d+\.\d{2} when decimals = 2
IsDecimal(s, decimals) ==
    \E dot \in 2..(Len(s) - 1) :
        /\ s[dot] = "."
        /\ IsDigits(SubSeq(s, 1, dot - 1)) /\ IsDigits(SubSeq(s, dot + 1, Len(s)))
        /\ decimals = 0 \/ Len(s) - dot = decimals

\* Group 1 of an odds pattern matched from position i of the line up to its
\* end, <<>> when the pattern does not match there.  Every pattern ends in
\* \s*$, and every group is at least one character.
Captured(pattern, line, i) ==
    LET rest == RStrip(SubSeq(line, i + 1, Len(line)))
        sign == line[i] \in {"+", "-"}
    IN  CASE pattern = "[+-]\\d{3}" ->
               IF sign /\ IsDigits(rest) /\ Len(rest) = 3 THEN <<line[i]>> \o rest ELSE <<>>
          [] pattern = "[+-]\\d+" ->
               IF sign /\ IsDigits(rest) THEN <<line[i]>> \o rest ELSE <<>>
          [] pattern = "@" ->
               IF line[i] = "@" /\ IsNumber(LStrip(rest)) THEN LStrip(rest) ELSE <<>>
          [] pattern = "()" ->
               IF line[i] = "(" /\ rest # <<>> /\ rest[Len(rest)] = ")"
                     /\ IsNumber(SubSeq(rest, 1, Len(rest) - 1))
               THEN SubSeq(rest, 1, Len(rest) - 1) ELSE <<>>
          [] pattern = "\\d+\\.\\d+" ->
               IF line[i] \in {" ", "\n"} /\ IsDecimal(rest, 0) THEN rest ELSE <<>>
          [] pattern = "\\d+\\.\\d{2}" ->
               IF line[i] \in {" ", "\n"} /\ IsDecimal(rest, 2) THEN rest ELSE <<>>

\* re.search(pattern, line): the leftmost position where it matches, or 0
Search(pattern, line) ==
    LET RECURSIVE from(_)
        from(i) == IF i > Len(line) THEN 0
                   ELSE IF Captured(pattern, line, i) # <<>> THEN i
                   ELSE from(i + 1)
    IN  from(1)

\* The loop over odds_patterns: the first pattern that matches gives the
\* odds and cuts the pick; with none the leg keeps the line and odds 1.0.
RECURSIVE ExtractOdds(_, _)
ExtractOdds(odds_patterns, line) ==
    IF odds_patterns = <<>> THEN [pick |-> line, odds |-> FOne]
    ELSE LET start == Search(Head(odds_patterns), line)
         IN  IF start # 0
             THEN [pick |-> Strip(SubSeq(line, 1, start - 1)),
                   odds |-> parse_odds(Captured(Head(odds_patterns), line, start))]
             ELSE ExtractOdds(Tail(odds_patterns), line)

\* The loop of parse_parlay_text of bot.py over the lines
RECURSIVE ParlayLegs(_)
ParlayLegs(lines) ==
    IF lines = <<>> THEN <<>>
    ELSE LET line == Strip(Head(lines))
             leg == ExtractOdds(<<"[+-]\\d+", "@", "()", "\\d+\\.\\d+">>, line)
         IN  IF line = <<>> \/ line[1] = "#" THEN ParlayLegs(Tail(lines))
             ELSE IF leg.pick # <<>> THEN <<leg>> \o ParlayLegs(Tail(lines))
             ELSE ParlayLegs(Tail(lines))

parse_parlay_text(text) == ParlayLegs(Split(Strip(text), "\n"))

\* The three re.sub calls of telegram_bot.py that remove a prefix
RemovePrefixes(line) ==
    LET digits(s) == CHOOSE n \in 0..Len(s) :
                        /\ \A i \in 1..n : s[i] \in DigitChars
                        /\ n = Len(s) \/ s[n + 1] \notin DigitChars
        drop(s, n) == SubSeq(s, n + 1, Len(s))
        l1 == IF digits(line) > 0 /\ digits(line) < Len(line)
                    /\ line[digits(line) + 1] \in {".", ")"}
              THEN LStrip(drop(line, digits(line) + 1)) ELSE line
        l2 == IF l1 # <<>> /\ l1[1] \in {"-", "*"} THEN LStrip(Tail(l1)) ELSE l1
        a == LStrip(drop(l2, 3))
        b == drop(a, digits(a))
        c == IF b # <<>> /\ b[1] = ":" THEN Tail(b) ELSE b
    IN  IF Len(l2) >= 3 /\ Lower(SubSeq(l2, 1, 3)) = <<"l", "e", "g">> THEN LStrip(c) ELSE l2

\* re.sub(r'[,;:]+$', '', pick)
RECURSIVE RemoveTrailingPunctuation(_)
RemoveTrailingPunctuation(pick) ==
    IF pick # <<>> /\ pick[Len(pick)] \in {",", ";", ":"}
    THEN RemoveTrailingPunctuation(SubSeq(pick, 1, Len(pick) - 1))
    ELSE pick

\* The loop of parse_parlay_text of telegram_bot.py over the lines
RECURSIVE TgParlayLegs(_)
TgParlayLegs(lines) ==
    IF lines = <<>> THEN <<>>
    ELSE LET skip_words == { <<"p", "a", "r", "l", "a", "y">>, <<"t", "o", "t", "a", "l">>,
                             <<"w", "a", "g", "e", "r">>, <<"s", "t", "a", "k", "e">>,
                             <<"b", "e", "t">>, <<"s", "l", "i", "p">> }
             line0 == Strip(Head(lines))
             line == Strip(RemovePrefixes(line0))
             leg == ExtractOdds(<<"[+-]\\d{3}", "[+-]\\d+", "@", "()", "\\d+\\.\\d{2}">>, line)
             pick == Strip(RemoveTrailingPunctuation(Strip(leg.pick)))
         IN  IF line0 = <<>> \/ line0[1] \in {"/", "#"} \/ line = <<>> \/ Lower(line) \in skip_words
             THEN TgParlayLegs(Tail(lines))
             ELSE IF pick # <<>> /\ Len(pick) >= 2
                  THEN <<[pick |-> pick, odds |-> leg.odds]>> \o TgParlayLegs(Tail(lines))
             ELSE TgParlayLegs(Tail(lines))

tg_parse_parlay_text(text) ==
    LET stripped == Strip(text)
        has(c) == \E i \in 1..Len(stripped) : stripped[i] = c
        lines == Split(stripped, "\n")
    IN  TgParlayLegs(IF Len(lines) # 1 THEN lines
                     ELSE IF has(",") THEN Split(stripped, ",")
                     ELSE IF has(";") THEN Split(stripped, ";")
                     ELSE lines)

(***************************************************************************)
(* Both parsers on every text of a bounded set: the text is drawn first,   *)
(* then each bot parses it.                                                *)
(***************************************************************************)
MaxLegPieces == 3     \* pieces a drawn parlay text is put together from

LegTexts ==
    LET pieces == { <<"A", "b">>, <<"Z">>, <<" ">>, <<"\n">>, <<"+", "1", "5", "0">>,
                    <<"1", ".", "5", "0">>, <<"@">>, <<"(", "1", ".", "5", "0", ")">>, <<",">>,
                    <<":">>, <<"#">>, <<"-">>, <<"L", "e", "g">>, <<"B", "e", "t">> }
    IN  { Flatten(q) : q \in UNION { [1..n -> pieces] : n \in 0..MaxLegPieces } }

\* legs = parse_parlay_text(text) in bot.py
ParseLegs(t) ==
    /\ th[t].pc = "legs"
    /\ th' = [th EXCEPT ![t] = [@ EXCEPT !.pc = "done", !.said = "bot",
                                         !.legs = parse_parlay_text(th[t].text)]]
    /\ UNCHANGED <<bets, clock, parlays, tg_parlays>>

\* legs = parse_parlay_text(text) in telegram_bot.py
TgParseLegs(t) ==
    /\ th[t].pc = "legs"
    /\ th' = [th EXCEPT ![t] = [@ EXCEPT !.pc = "done", !.said = "telegram",
                                         !.legs = tg_parse_parlay_text(th[t].text)]]
    /\ UNCHANGED <<bets, clock, parlays, tg_parlays>>

LegsInit ==
    \E text \in LegTexts :
        /\ bets = <<>>
        /\ clock = 0
        /\ NoParlays
        /\ th = [t \in Threads |->
                   IF t = 1 THEN [IdleTh EXCEPT !.pc = "legs", !.text = text] ELSE IdleTh]

LegsNext == \E t \in Threads : ParseLegs(t) \/ TgParseLegs(t)

LegsSpec == LegsInit /\ [][LegsNext]_vars

(***************************************************************************)
(* match_bet_to_game on a drawn description and a drawn list of games.     *)
(***************************************************************************)
MaxGames == 2         \* games of a drawn list

\* None
NoGame == [id |-> 0]

\* The loop over the games with the test of completed left out
RECURSIVE match_bet_to_game_any_status(_, _)
match_bet_to_game_any_status(bet_description, games) ==
    IF games = <<>> THEN NoGame
    ELSE LET game == Head(games)
             teams == <<Lower(game.home_team), Lower(game.away_team),
                        Lower(game.home_abbrev), Lower(game.away_abbrev)>>
         IN  IF \E k \in 1..4 : Len(teams[k]) > 2 /\ Contains(Lower(bet_description), teams[k])
             THEN game
             ELSE match_bet_to_game_any_status(bet_description, Tail(games))

RECURSIVE match_bet_to_game(_, _)
match_bet_to_game(bet_description, games) ==
    IF games = <<>> THEN NoGame
    ELSE LET game == Head(games)
             desc_lower == Lower(bet_description)
             teams == <<Lower(game.home_team), Lower(game.away_team),
                        Lower(game.home_abbrev), Lower(game.away_abbrev)>>
         IN  IF ~game.completed THEN match_bet_to_game(bet_description, Tail(games))
             ELSE IF \E k \in 1..4 : Len(teams[k]) > 2 /\ Contains(desc_lower, teams[k])
             THEN game
             ELSE match_bet_to_game(bet_description, Tail(games))

\* Lists of games as fetch_scores builds them, ids in list order
GameLists ==
    LET teams == { [name |-> <<"O", "w", "l", "s">>, abbrev |-> <<"O", "W", "L">>],
                   [name |-> <<"L", "A">>, abbrev |-> <<"L", "A">>],
                   [name |-> <<"J", "e", "t", "s">>, abbrev |-> <<>>] }
        shapes == [completed : BOOLEAN, home : teams, away : teams]
    IN  UNION { { [i \in 1..n |-> [id |-> i, completed |-> q[i].completed,
                                   home_team |-> q[i].home.name, home_abbrev |-> q[i].home.abbrev,
                                   away_team |-> q[i].away.name, away_abbrev |-> q[i].away.abbrev]]
                    : q \in [1..n -> shapes] } : n \in 0..MaxGames }

Descriptions ==
    { <<"O", "W", "L", "S", " ", "w", "i", "n">>, <<"o", "w", "l">>, <<"L", "A", " ", "w", "i", "n">>,
      <<"j", "e", "t", "s", " ", "b", "y", " ", "3">>, <<"o", "w">>, <<>> }

\* game = match_bet_to_game(bet['description'], all_games) of the check command
MatchBetToGame(t) ==
    /\ th[t].pc = "match"
    /\ th' = [th EXCEPT ![t] = [@ EXCEPT !.pc = "done",
                                         !.game = match_bet_to_game(th[t].text, th[t].games)]]
    /\ UNCHANGED <<bets, clock, parlays, tg_parlays>>

GameInit ==
    \E description \in Descriptions, all_games \in GameLists :
        /\ bets = <<>>
        /\ clock = 0
        /\ NoParlays
        /\ th = [t \in Threads |->
                   IF t = 1 THEN [IdleTh EXCEPT !.pc = "match", !.text = description,
                                                !.games = all_games]
                   ELSE IdleTh]

GameNext == \E t \in Threads : MatchBetToGame(t)

GameSpec == GameInit /\ [][GameNext]_vars

(***************************************************************************)
(* The parlays tables and the handlers that write them.  The Slack bot     *)
(* (bot.py) and the Telegram bot (telegram_bot.py) are two programs with   *)
(* a database each: thread 1 is the Slack listener, thread 2 the Telegram  *)
(* one.  Each handler runs to completion as one step and leaves what it    *)
(* answered in its thread.  A deleted row leaves its id behind             *)
(* (AUTOINCREMENT): it becomes NoParlay.  The clock stands still here.     *)
(* The two programs share no state, so a behaviour of the pair is a        *)
(* behaviour of each laid side by side: a handler of one program runs      *)
(* while the listener of the other is idle (th[3 - t].pc = "idle"), which  *)
(* explores each program on its own.                                       *)
(***************************************************************************)
MaxParlays == 1       \* rows each parlays table comes to hold

\* None of get_parlay, and the place of a deleted row
NoParlay == [id |-> 0]

\* total_odds = 1.0; for leg in legs: total_odds *= odds
RECURSIVE TotalOdds(_)
TotalOdds(legs) ==
    IF legs = <<>> THEN FOne
    ELSE FMul(TotalOdds(SubSeq(legs, 1, Len(legs) - 1)), legs[Len(legs)].odds)

\* f"{x:.2f}" for x >= 0 as the text of an amount: 100 * x exactly,
\* rounded to an integer number of cents, ties to even
TwoDecimals(x) ==
    LET p3 == x.m[4] * 100
        p2 == x.m[3] * 100 + (p3 \div LimbBase)
        p1 == x.m[2] * 100 + (p2 \div LimbBase)
        p0 == x.m[1] * 100 + (p1 \div LimbBase)
        f1 == p1 % LimbBase
        rest == (p2 % LimbBase) + (p3 % LimbBase)
        half == LimbBase \div 2
        cents == IF f1 > half \/ (f1 = half /\ (rest > 0 \/ p0 % 2 = 1)) THEN p0 + 1 ELSE p0
    IN  AmountText(cents \div 100, cents % 100)

\* add_parlay of bot.py: INSERT INTO parlays.  The legs of every caller
\* hold float odds; a stake that float() rejects gives potential_payout 0.
add_parlay(table, user_id, stake, legs, now) ==
    LET total_odds == TotalOdds(legs)
        potential_payout == IF stake = CorruptAmount THEN FZero
                            ELSE FMul(ParseAmountFloat(stake), total_odds)
    IN  Append(table, [id |-> Len(table) + 1, user_id |-> user_id, stake |-> <<stake>>,
                       total_odds |-> TwoDecimals(total_odds),
                       potential_payout |-> <<TwoDecimals(potential_payout)>>,
                       legs |-> legs, status |-> "open", result |-> <<>>,
                       created_at |-> now, resolved_at |-> NoTime])

\* add_parlay of telegram_bot.py; stake is <<>> for None
tg_add_parlay(table, user_id, legs, stake, now) ==
    LET total_odds == TotalOdds(legs)
    IN  Append(table, [id |-> Len(table) + 1, user_id |-> user_id, stake |-> stake,
                       total_odds |-> TwoDecimals(total_odds),
                       potential_payout |->
                           IF stake = <<>> \/ stake[1] = CorruptAmount THEN <<>>
                           ELSE <<TwoDecimals(FMul(ParseAmountFloat(stake[1]), total_odds))>>,
                       legs |-> legs, status |-> "open", result |-> <<>>,
                       created_at |-> now, resolved_at |-> NoTime])

\* SELECT * FROM parlays WHERE id = ?
get_parlay(table, parlay_id) ==
    IF parlay_id \in 1..Len(table) THEN table[parlay_id] ELSE NoParlay

\* UPDATE parlays SET status = ?, result = ?, resolved_at = ? WHERE id = ?
update_parlay_status(table, parlay_id, status, result, now) ==
    IF get_parlay(table, parlay_id) = NoParlay THEN table
    ELSE [table EXCEPT ![parlay_id] = [@ EXCEPT !.status = status, !.result = result,
                                                !.resolved_at = now]]

\* What a handler leaves in its thread
Answered(t, said, parlay_id) ==
    th' = [th EXCEPT ![t] = [IdleTh EXCEPT !.pc = "done", !.said = said, !.parlay_id = parlay_id]]

\* The texts of picks drawn and the legs read off a slip; every stake typed
\* is "$20"
ParlayTexts ==
    { <<>>, <<"#">>, <<"z">>,
      <<"a", "b", " ", "+", "1", "5", "0", "\n", "a", "b", " ", "1", ".", "9", "1">> }
SlipLegs ==
    { <<>>, <<[pick |-> <<"a", "b">>, odds |-> FAdd(FOne, FDivInt(150, 100))],
              [pick |-> <<"a", "b">>, odds |-> FDivInt(191, 100)]>> }

\* parse_parlay_text of each program on the texts drawn, as the handlers
\* call it: on the stripped text, which handle_mention lower-cased
parsed ==
    [program \in {"bot", "telegram"} |->
        [text \in {Strip(x) : x \in ParlayTexts \cup {Lower(y) : y \in ParlayTexts}} |->
            IF program = "bot" THEN parse_parlay_text(text) ELSE tg_parse_parlay_text(text)]]

\* The typed parlay without the check of the parsed legs
ParlayAddNoLegsCheck(t, multiline) ==
    /\ th[3 - t].pc = "idle"
    /\ \E text \in ParlayTexts :
         LET legs_text == Strip(IF multiline THEN text ELSE Lower(text))
             legs == parsed.bot[legs_text]
         IN  /\ multiline => legs_text # <<>>
             /\ \E user_id \in {"A", "B"}, stake \in {AmountText(20, 0 - 1)} :
                IF ~multiline /\ legs_text = <<>>
                   THEN parlays' = parlays /\ Answered(t, "prompt", 0)
                   ELSE /\ Len(parlays) < MaxParlays
                        /\ parlays' = add_parlay(parlays, user_id, stake, legs, clock)
                        /\ Answered(t, "added", Len(parlays) + 1)
    /\ UNCHANGED <<bets, clock, tg_parlays>>

\* handle_mention, "parlay add $20 <legs>" and, with multiline, the stake
\* line followed by the legs
ParlayAdd(t, multiline) ==
    /\ th[3 - t].pc = "idle"
    /\ \E text \in ParlayTexts :
         LET legs_text == Strip(IF multiline THEN text ELSE Lower(text))
             legs == parsed.bot[legs_text]
         IN  /\ multiline => legs_text # <<>>
             /\ \E user_id \in {"A", "B"}, stake \in {AmountText(20, 0 - 1)} :
                IF ~multiline /\ legs_text = <<>>
                   THEN parlays' = parlays /\ Answered(t, "prompt", 0)
                   ELSE IF legs = <<>>
                   THEN parlays' = parlays /\ Answered(t, "no_legs", 0)
                   ELSE /\ Len(parlays) < MaxParlays
                        /\ parlays' = add_parlay(parlays, user_id, stake, legs, clock)
                        /\ Answered(t, "added", Len(parlays) + 1)
    /\ UNCHANGED <<bets, clock, tg_parlays>>

\* handle_mention, "parlay <id> won|lost|push|delete"; of the synonyms
\* (win, lose, pushed, cancel, remove) one is drawn
ParlayResult(t) ==
    /\ th[3 - t].pc = "idle"
    /\ \E user_id \in {"A", "B"}, parlay_id \in 1..(MaxParlays + 1),
          result \in {"won", "win", "lost", "push", "delete"} :
         LET parlay == get_parlay(parlays, parlay_id)
         IN  IF parlay = NoParlay
             THEN parlays' = parlays /\ Answered(t, "not_found", parlay_id)
             ELSE IF parlay.user_id # user_id
             THEN parlays' = parlays /\ Answered(t, "not_yours", parlay_id)
             ELSE IF result \in {"won", "win"}
             THEN /\ parlays' = update_parlay_status(parlays, parlay_id, "won",
                                                     parlay.potential_payout, clock)
                  /\ Answered(t, "won", parlay_id)
             ELSE IF result \in {"lost", "lose"}
             THEN /\ parlays' = update_parlay_status(parlays, parlay_id, "lost", <<>>, clock)
                  /\ Answered(t, "lost", parlay_id)
             ELSE IF result \in {"delete", "cancel", "remove"}
             THEN /\ parlays' = [parlays EXCEPT ![parlay_id] = NoParlay]
                  /\ Answered(t, "deleted", parlay_id)
             ELSE /\ parlays' = update_parlay_status(parlays, parlay_id, "pushed", <<>>, clock)
                  /\ Answered(t, "pushed", parlay_id)
    /\ UNCHANGED <<bets, clock, tg_parlays>>

\* handle_message of bot.py on an uploaded slip: the stake of the text or
\* "10", and the legs parse_betting_slip_ocr read
Screenshot(t) ==
    /\ th[3 - t].pc = "idle"
    /\ \E user_id \in {"A", "B"}, stake \in {AmountText(20, 0 - 1), AmountText(10, 0 - 1)},
          legs \in SlipLegs :
         IF legs = <<>>
         THEN parlays' = parlays /\ Answered(t, "no_legs", 0)
         ELSE /\ Len(parlays) < MaxParlays
              /\ parlays' = add_parlay(parlays, user_id, stake, legs, clock)
              /\ Answered(t, "added", Len(parlays) + 1)
    /\ UNCHANGED <<bets, clock, tg_parlays>>

\* parlay_command (command, picks after "/parlay") and handle_message
\* (the whole text) of telegram_bot.py
TgPicks(t, command) ==
    /\ th[3 - t].pc = "idle"
    /\ \E text \in ParlayTexts :
         LET legs == parsed.telegram[Strip(text)]
         IN  IF (command /\ Strip(text) = <<>>) \/ legs = <<>>
             THEN tg_parlays' = tg_parlays /\ Answered(t, IF command THEN "help" ELSE "none", 0)
             ELSE /\ Len(tg_parlays) < MaxParlays
                  /\ tg_parlays' = tg_add_parlay(tg_parlays, "A", legs, <<>>, clock)
                  /\ Answered(t, "added", Len(tg_parlays) + 1)
    /\ UNCHANGED <<bets, clock, parlays>>

\* parlay_won, parlay_lost and parlay_delete of telegram_bot.py
TgParlayResult(t) ==
    /\ th[3 - t].pc = "idle"
    /\ \E user_id \in {"A", "B"}, parlay_id \in 1..(MaxParlays + 1),
          command \in {"parlay_won", "parlay_lost", "parlay_delete"} :
         LET parlay == get_parlay(tg_parlays, parlay_id)
         IN  IF parlay = NoParlay
             THEN tg_parlays' = tg_parlays /\ Answered(t, "not_found", parlay_id)
             ELSE IF parlay.user_id # user_id
             THEN tg_parlays' = tg_parlays /\ Answered(t, "not_yours", parlay_id)
             ELSE IF command = "parlay_won"
             THEN /\ tg_parlays' = update_parlay_status(tg_parlays, parlay_id, "won",
                                                        parlay.potential_payout, clock)
                  /\ Answered(t, "won", parlay_id)
             ELSE IF command = "parlay_lost"
             THEN /\ tg_parlays' = update_parlay_status(tg_parlays, parlay_id, "lost", <<>>, clock)
                  /\ Answered(t, "lost", parlay_id)
             ELSE /\ tg_parlays' = [tg_parlays EXCEPT ![parlay_id] = NoParlay]
                  /\ Answered(t, "deleted", parlay_id)
    /\ UNCHANGED <<bets, clock, parlays>>

\* handle_photo of telegram_bot.py: the stake of the caption or None
TgPhoto(t) ==
    /\ th[3 - t].pc = "idle"
    /\ \E stake \in {<<>>, <<AmountText(20, 0 - 1)>>}, legs \in SlipLegs :
         IF legs = <<>>
         THEN tg_parlays' = tg_parlays /\ Answered(t, "no_legs", 0)
         ELSE /\ Len(tg_parlays) < MaxParlays
              /\ tg_parlays' = tg_add_parlay(tg_parlays, "A", legs, stake, clock)
              /\ Answered(t, "added", Len(tg_parlays) + 1)
    /\ UNCHANGED <<bets, clock, parlays>>

ParlayNext ==
    \/ ParlayAdd(1, FALSE)
    \/ ParlayAdd(1, TRUE)
    \/ ParlayResult(1)
    \/ Screenshot(1)
    \/ TgPicks(2, TRUE)
    \/ TgPicks(2, FALSE)
    \/ TgPhoto(2)
    \/ TgParlayResult(2)

ParlaySpec == Init /\ [][ParlayNext]_vars

(***************************************************************************)
(* Properties of the store and of the settle and cancel handlers (Spec).   *)
(***************************************************************************)
\* The handler of thread t called settle_bet and the call has returned.
SettleReturned(t) == th[t].pc = "done" /\ th[t].said = "settled"

RowIs(bet_id, status, winner_id, resolved_at) ==
    /\ bet_id \in 1..Len(bets)
    /\ bets[bet_id].status = status
    /\ bets[bet_id].winner_id = winner_id
    /\ bets[bet_id].resolved_at = resolved_at

\* C1: of two settle_bet calls that handlers made on the same wager while it
\* was open, exactly one returned success, and the wager is SETTLED with the
\* winner and the resolved_at of that call; a successful call's values are
\* never overwritten.
C1_ExactlyOneSettles ==
    /\ \A t \in Threads :
         SettleReturned(t) /\ th[t].ret = "true"
            => RowIs(th[t].bet_id, "settled", th[t].winner_id, th[t].now)
    /\ \A t1, t2 \in Threads :
         (t1 # t2 /\ SettleReturned(t1) /\ SettleReturned(t2)
                  /\ th[t1].bet_id = th[t2].bet_id)
            => (th[t1].ret = "true") # (th[t2].ret = "true")

\* Both threads raced settle_bet on one wager, naming different winners.
C1_Witness ==
    /\ SettleReturned(1) /\ SettleReturned(2)
    /\ th[1].bet_id = th[2].bet_id
    /\ th[1].winner_id # th[2].winner_id
    /\ th[2].ret = "true"

\* C2: a wager's status only moves OPEN -> SETTLED or OPEN -> CANCELLED; no
\* step changes the status of a SETTLED or CANCELLED wager, and no row is
\* ever removed.
C2_StatusMonotone ==
    [][/\ Len(bets') >= Len(bets)
       /\ \A i \in 1..Len(bets) :
            \/ bets'[i].status = bets[i].status
            \/ bets[i].status = "open" /\ bets'[i].status \in {"settled", "cancelled"}]_vars

\* A cancel and a settle both ran against a wager that was already resolved.
C2_Witness ==
    /\ th[1].pc = "done" /\ th[1].said = "cancel_failed"
    /\ th[2].pc = "done" /\ th[2].said = "settled" /\ th[2].ret = "false"
    /\ th[1].bet_id = th[2].bet_id
    /\ th[1].bet_id \in 1..Len(bets)

\* C3: every SETTLED wager's winner is its participant_a or participant_b.
C3_WinnerIsParticipant ==
    \A i \in 1..Len(bets) :
        bets[i].status = "settled"
            => bets[i].winner_id \in {bets[i].person1_id, bets[i].person2_id}

\* A wager is settled while a settle command naming an outsider was refused.
C3_Witness ==
    /\ \E i \in 1..Len(bets) : bets[i].status = "settled"
    /\ \E t \in Threads : th[t].pc = "done" /\ th[t].said = "not_participant"

\* C4: a settle_bet call on an OPEN wager returns success and writes winner
\* and resolved_at; a call on a wager that is no longer OPEN returns failure
\* and leaves the table as it was; and no later step of any handler changes
\* the winner or resolved_at of a SETTLED wager.
C4_SettleOnce ==
    [][/\ \A t \in Threads :
            (th[t].pc = "settle_update" /\ th'[t].pc = "done")
               => LET id == th[t].bet_id
                  IN  IF bets[id].status = "open"
                      THEN /\ th'[t].ret = "true"
                           /\ bets'[id].status = "settled"
                           /\ bets'[id].winner_id = th[t].winner_id
                           /\ bets'[id].resolved_at = th[t].now
                      ELSE th'[t].ret = "false" /\ bets' = bets
       /\ \A i \in 1..Len(bets) :
            bets[i].status = "settled"
               => /\ bets'[i].winner_id = bets[i].winner_id
                  /\ bets'[i].resolved_at = bets[i].resolved_at]_vars

\* The second of two settle_bet calls naming the same winner has failed, and
\* a cancel was tried on the settled wager afterwards.
C4_Witness ==
    /\ SettleReturned(1) /\ th[1].ret = "false"
    /\ RowIs(th[1].bet_id, "settled", th[1].winner_id, 0)
    /\ th[2].pc = "done" /\ th[2].said = "cancel_failed" /\ th[2].bet_id = th[1].bet_id
    /\ clock > 0

\* C10: a settle command whose wager id does not exist replies not-found,
\* one whose wager is already SETTLED or CANCELLED replies already-resolved,
\* one naming a winner who is neither participant of an OPEN wager replies
\* winner-not-a-participant; in each case the handler ends with that reply
\* and the table is unchanged.
SettleCommandStep(t) ==
    /\ Ready(t)
    /\ th'[t] # th[t]
    /\ th'[t].winner_id # NoUser
    /\ th'[t].pc \in {"settle_now", "done"}

C10_SettleErrors ==
    [][\A t \in Threads :
         SettleCommandStep(t)
            => LET id == th'[t].bet_id
                   w == th'[t].winner_id
                   said == th'[t].said
                   refused == th'[t].pc = "done" /\ bets' = bets
               IN  IF id \notin 1..Len(bets) THEN said = "not_found" /\ refused
                   ELSE IF bets[id].status # "open" THEN said = "already" /\ refused
                   ELSE IF w \notin {bets[id].person1_id, bets[id].person2_id}
                        THEN said = "not_participant" /\ refused
                   ELSE said = "none" /\ th'[t].pc = "settle_now"]_vars

\* Two of the three refusals have been given, one of them for a wager that
\* exists and is resolved.
C10_Witness ==
    /\ th[1].pc = "done" /\ th[1].said = "already" /\ th[1].bet_id \in 1..Len(bets)
    /\ th[2].pc = "done" /\ th[2].said = "not_participant"

\* The handler of thread t called cancel_bet and the call has returned.
CancelReturned(thr, t) == thr[t].pc = "done" /\ thr[t].said \in {"cancelled", "cancel_failed"}

\* A cancel and a settle on the same wager that both report success.
BothTookEffect(thr) ==
    \E t1, t2 \in Threads :
        /\ CancelReturned(thr, t1) /\ thr[t1].ret = "true"
        /\ thr[t2].pc = "done" /\ thr[t2].said = "settled" /\ thr[t2].ret = "true"
        /\ thr[t1].bet_id = thr[t2].bet_id

\* C11: a cancel_bet call returns success exactly when the wager exists and
\* is OPEN when the UPDATE runs, and then makes it CANCELLED with its
\* resolved_at and no winner, changing nothing else; otherwise it returns
\* failure and leaves the table as it was.  A settle_bet call that runs its
\* UPDATE takes effect exactly when the wager is still OPEN, so of a cancel
\* and a settle racing on one OPEN wager the first UPDATE takes effect and
\* the other does not: never both, and the wager does not stay OPEN.
C11_CancelIfOpen ==
    [][/\ \A t \in Threads :
            (th[t].pc = "cancel_update" /\ th'[t].pc = "done")
               => LET id == th[t].bet_id
                  IN  IF id \in 1..Len(bets) /\ bets[id].status = "open"
                      THEN /\ th'[t].ret = "true" /\ th'[t].said = "cancelled"
                           /\ bets' = [bets EXCEPT ![id].status = "cancelled",
                                                   ![id].resolved_at = th[t].now]
                           /\ bets'[id].winner_id = NoUser
                      ELSE /\ th'[t].ret = "false" /\ th'[t].said = "cancel_failed"
                           /\ bets' = bets
       /\ \A t \in Threads :
            (th[t].pc = "settle_update" /\ th'[t].pc = "done")
               => /\ (th'[t].ret = "true") <=> (bets[th[t].bet_id].status = "open")
                  /\ bets'[th[t].bet_id].status # "open"
                  /\ th'[t].ret = "false" => bets' = bets
       /\ ~BothTookEffect(th')]_vars

\* A cancel and a settle raced on one OPEN wager: the settle passed its
\* checks, the cancel's UPDATE came first, the settle's UPDATE failed.
C11_Witness ==
    /\ CancelReturned(th, 1) /\ th[1].ret = "true"
    /\ SettleReturned(2) /\ th[2].ret = "false"
    /\ th[1].bet_id = th[2].bet_id
    /\ RowIs(th[1].bet_id, "cancelled", NoUser, th[1].now)

\* C12: an OPEN wager has no winner and no resolved_at; a CANCELLED wager has
\* resolved_at set and no winner; a SETTLED wager has winner and resolved_at
\* set.
C12_FieldsFollowStatus ==
    \A i \in 1..Len(bets) :
        /\ bets[i].status \in {"open", "settled", "cancelled"}
        /\ bets[i].status = "open"
              => bets[i].winner_id = NoUser /\ bets[i].resolved_at = NoTime
        /\ bets[i].status = "cancelled"
              => bets[i].winner_id = NoUser /\ bets[i].resolved_at # NoTime
        /\ bets[i].status = "settled"
              => bets[i].winner_id # NoUser /\ bets[i].resolved_at # NoTime

\* A wager created at one clock reading was cancelled at a later one, after
\* a settle command for it had passed its checks.
C12_Witness ==
    /\ \E i \in 1..Len(bets) :
          /\ bets[i].status = "cancelled"
          /\ bets[i].resolved_at > bets[i].created_at
    /\ \E t \in Threads : SettleReturned(t) /\ th[t].ret = "false"

(***************************************************************************)
(* Properties of the ledger (LedgerSpec).                                  *)
(***************************************************************************)
Settled == SelectSettled(bets)
WholeDollars(rows) == \A i \in 1..Len(rows) : AmountCents(rows[i].amount) % 100 = 0

\* The values of a dict added up in its iteration order, starting from 0
RECURSIVE SumValues(_)
SumValues(d) ==
    IF d = <<>> THEN FZero
    ELSE FAdd(SumValues(SubSeq(d, 1, Len(d) - 1)), d[Len(d)].v)

\* The amounts of rows added up in their order, starting from 0
RECURSIVE SumAmounts(_)
SumAmounts(rows) ==
    IF rows = <<>> THEN FZero
    ELSE FAdd(SumAmounts(SubSeq(rows, 1, Len(rows) - 1)),
              ParseAmountFloat(rows[Len(rows)].amount))

WonBy(rows, u) == SelectSeq(rows, LAMBDA b : b.winner_id = u)
LostBy(rows, u) == SelectSeq(rows, LAMBDA b : LoserOf(b) = u)
\* C5, as stated: the balances get_balances returns add up to 0.
C5_ZeroSum == SumValues(get_balances(bets)) = FZero

\* C5, amended: when every settled amount is a whole number of dollars, the
\* balances get_balances returns add up to 0.
C5_ZeroSumWholeDollars ==
    WholeDollars(Settled) => SumValues(get_balances(bets)) = FZero

\* Two or more settled whole-dollar wagers and a balance that is not 0.
C5_Witness ==
    /\ Len(Settled) >= 2
    /\ WholeDollars(Settled)
    /\ Cardinality(DictKeys(get_balances(bets))) >= 2
    /\ \E u \in Users : get_user_balance(bets, u) # FZero

\* C6: for two users U and V, V is a counterparty in get_user_debts(U)
\* exactly when U is one in get_user_debts(V), and the two net debts are
\* each other's negation.
C6_DebtSymmetry ==
    \A u, v \in Users :
        u # v =>
            LET du == get_user_debts(bets, u)
                dv == get_user_debts(bets, v)
            IN  /\ DictHas(du, v) <=> DictHas(dv, u)
                /\ DictHas(du, v) => DictGet(du, v) = FNeg(DictGet(dv, u))

\* A and B have settled a cent wager and a dollar wager with each other,
\* entered from opposite sides, and the net debt is not 0.
C6_Witness ==
    /\ \E i, j \in 1..Len(bets) :
          /\ bets[i].status = "settled" /\ bets[j].status = "settled"
          /\ bets[i].person1_id = "A" /\ bets[i].person2_id = "B"
          /\ bets[j].person1_id = "B" /\ bets[j].person2_id = "A"
          /\ bets[i].winner_id # bets[j].winner_id
    /\ DictGet(get_user_debts(bets, "A"), "B") # FZero

BalanceIsWonMinusLost(table) ==
    \A u \in Users :
        get_user_balance(table, u)
            = FSub(SumAmounts(WonBy(SelectSettled(table), u)),
                   SumAmounts(LostBy(SelectSettled(table), u)))

\* C7, as stated: every user's balance is the sum of the amounts of the
\* settled wagers the user won minus the sum of those the user lost.
C7_BalanceIsWonMinusLost == BalanceIsWonMinusLost(bets)

CreateOrCancelStep ==
    \/ Len(bets') > Len(bets)
    \/ \E i \in 1..Len(bets) : bets[i].status = "open" /\ bets'[i].status = "cancelled"

\* C7, amended: when every settled amount is a whole number of dollars,
\* every user's balance is the sum of the amounts won minus the sum of the
\* amounts lost; and a step that creates or cancels a wager leaves every
\* balance as it was, whatever the amounts.
C7_WholeDollarBalance ==
    [][bets' # bets =>
         /\ WholeDollars(SelectSettled(bets')) => BalanceIsWonMinusLost(bets')
         /\ CreateOrCancelStep => DictEq(get_balances(bets'), get_balances(bets))]_vars

\* Two settled whole-dollar wagers beside a cancelled one, and A not even.
C7_Witness ==
    /\ Len(Settled) >= 2
    /\ WholeDollars(Settled)
    /\ \E i \in 1..Len(bets) : bets[i].status = "cancelled"
    /\ get_user_balance(bets, "A") # FZero
    /\ get_user_balance(bets, "B") # FZero

\* C8, as stated: wins is the number of settled wagers the user won, losses
\* the number of settled wagers the user took part in and did not win, and
\* win_pct is wins / (wins + losses) * 100, or 0 when wins + losses is 0.
C8_Records ==
    \A u \in Users :
        LET records == get_all_records(bets)
            wins == Len(WonBy(Settled, u))
            losses == Len(SelectSeq(Settled, LAMBDA b : u \in {b.person1_id, b.person2_id}
                                                         /\ b.winner_id # u))
        IN  IF DictHas(records, u)
            THEN /\ DictGet(records, u).wins = wins
                 /\ DictGet(records, u).losses = losses
                 /\ DictGet(records, u).win_pct = WinPct(wins, wins + losses)
            ELSE wins + losses = 0

Perms(n) == {f \in [1..n -> 1..n] : \A i, j \in 1..n : i # j => f[i] # f[j]}
Permute(rows, f) == [i \in 1..Len(rows) |-> rows[f[i]]]
Involving(rows, u) == SelectSeq(rows, LAMBDA b : b.person1_id = u \/ b.person2_id = u)

SameBalances(rows, other) == DictEq(BalancesScan(other), BalancesScan(rows))
SameDebts(rows, other) ==
    \A u \in Users : DictEq(DebtsScan(Involving(other, u), u), DebtsScan(Involving(rows, u), u))
SameRecords(rows, other) == DictEq(RecordsOver(other), RecordsOver(rows))

\* C9, as stated: balances, debts and records are the same for every order
\* in which the settled wagers are scanned.
C9_OrderInvariant ==
    \A f \in Perms(Len(Settled)) :
        /\ SameBalances(Settled, Permute(Settled, f))
        /\ SameDebts(Settled, Permute(Settled, f))
        /\ SameRecords(Settled, Permute(Settled, f))

\* C9, amended: the records are the same for every scan order, and so are
\* the balances and the debts when every settled amount is a whole number
\* of dollars.
C9_OrderInvariantWholeDollars ==
    \A f \in Perms(Len(Settled)) :
        /\ SameRecords(Settled, Permute(Settled, f))
        /\ WholeDollars(Settled) =>
              /\ SameBalances(Settled, Permute(Settled, f))
              /\ SameDebts(Settled, Permute(Settled, f))

\* Three settled whole-dollar wagers, not all alike, so that there are scan
\* orders that differ.
C9_Witness ==
    /\ Len(Settled) >= 3
    /\ WholeDollars(Settled)
    /\ \E i, j \in 1..Len(Settled) :
          Settled[i].amount # Settled[j].amount /\ Settled[i].winner_id # Settled[j].winner_id

\* The text "<@bot> <@U1> owes <@U2> $20" with U1 = B and U2 = A, and what
\* parse_bet_message makes of it.
OwesText == <<Mention(Bot), Mention("B"), Word("owes"), Mention("A"), Num(TRUE, 20, -1)>>
OwesData == parse_bet_message(OwesText, "B")

\* The store holds one wager, created from OwesText and settled for U2.
OwesSettled ==
    /\ Len(bets) = 1
    /\ bets[1].person1_id = OwesData.person1_id
    /\ bets[1].person2_id = OwesData.person2_id
    /\ bets[1].amount = OwesData.amount
    /\ bets[1].description = OwesData.description
    /\ bets[1].status = "settled"
    /\ bets[1].winner_id = "A"

\* C13: "<@bot> <@U1> owes <@U2> $20" parses to participants (U1, U2),
\* amount "$20", description "debt"; once that wager, alone in the store, is
\* settled for U2, balance(U2) = +20, balance(U1) = -20 and record(U2) is
\* wins 1, losses 0, win_pct 100.
C13_OwesEndToEnd ==
    /\ OwesData = Parsed(2, "B", "A", AmountText(20, -1), <<Word("debt")>>)
    /\ OwesSettled =>
          /\ get_user_balance(bets, "A") = FromInt(20)
          /\ get_user_balance(bets, "B") = FNeg(FromInt(20))
          /\ DictKeys(get_balances(bets)) = {"A", "B"}
          /\ LET r == DictGet(get_all_records(bets), "A")
             IN  r.wins = 1 /\ r.losses = 0 /\ r.win_pct = FromInt(100)

\* The wager made from the owes text is alone in the store, settled for U2.
C13_Witness == OwesSettled /\ OwesData.ok

(***************************************************************************)
(* Properties of parse_bet_message and of the new-wager branch (ParseSpec).*)
(***************************************************************************)
\* The handler of thread 1 has dealt with its event.
Handled == th[1].pc = "done"
HandledText == StripBot(th[1].text)

RuleMatches(r, t) ==
    CASE r = 1 -> Rule1At(t) # {}
      [] r = 2 -> Rule2At(t) # {}
      [] r = 3 -> Rule3At(t) # {}
      [] r = 4 -> Rule4At(t) # {}
      [] r = 5 -> Rule5At(t) # {}
      [] OTHER -> Rule6(t, NoUser).ok
RuleResult(r, t, sender_id) ==
    CASE r = 1 -> Rule1(t)
      [] r = 2 -> Rule2(t)
      [] r = 3 -> Rule3(t, sender_id)
      [] r = 4 -> Rule4(t, sender_id)
      [] r = 5 -> Rule5(t, sender_id)
      [] OTHER -> Rule6(t, sender_id)
MatchingRules(t) == {r \in 1..6 : RuleMatches(r, t)}

FinalsText ==
    <<Mention(Bot), Mention("A"), Word("vs"), Mention("B"), Num(TRUE, 50, -1), Word("finals")>>

\* C14: the result of parse_bet_message is the result of the first rule, in
\* the order vs, owes, bet, mention-amount, amount-mention, last-resort
\* scan, whose pattern matches, and None when none matches; and
\* "<@A> vs <@B> $50 finals" is parsed by rule 1 as (A, B), "$50", "finals".
C14_FirstMatchingRule ==
    /\ Handled =>
          IF MatchingRules(HandledText) = {}
          THEN th[1].bet_data = NoParse /\ th[1].said = "not_understood"
          ELSE th[1].bet_data
                  = RuleResult(MinOf(MatchingRules(HandledText)), HandledText, th[1].user)
    /\ (Handled /\ th[1].text = FinalsText) =>
          th[1].bet_data = Parsed(1, "A", "B", AmountText(50, -1), <<Word("finals")>>)

\* "<@A> vs <@B> $50 finals" has been handled; the mention-amount rule and
\* the last-resort scan match it as well.
C14_Witness ==
    /\ Handled /\ th[1].text = FinalsText
    /\ {1, 4, 6} \subseteq MatchingRules(HandledText)
    /\ th[1].bet_data.rule = 1

\* The last-resort scan decided the event: none of the five patterns matched.
ByLastResort == Handled /\ MatchingRules(HandledText) \cap (1..5) = {}
Collected(t) == DollarAmounts(t) \o StandaloneAmounts(t)
Range(q) == {q[i] : i \in 1..Len(q)}
NumTokens(t) == {t[i] : i \in {j \in 1..Len(t) : IsNum(t[j])}}

\* C15, as stated: in the last-resort scan, when the text holds a
\* dollar-prefixed numeric token (of value at least 1, so that it is not
\* discarded) and a bare numeric token, the amount chosen is that of a
\* dollar-prefixed token.
C15_DollarOutranksBare ==
    (/\ ByLastResort /\ th[1].bet_data.ok
     /\ \E x \in NumTokens(HandledText) : x.dollar /\ AmountCents(NumText(x)) >= 100
     /\ \E x \in NumTokens(HandledText) : ~x.dollar)
        => \E x \in NumTokens(HandledText) : x.dollar /\ NumText(x) = th[1].bet_data.amount

C17_ParticipantsFromMentions ==
    (ByLastResort /\ th[1].bet_data.ok) =>
        LET mentions == Mentions(HandledText)
        IN  IF Cardinality(Range(mentions)) >= 2
            THEN /\ th[1].bet_data.person1_id = mentions[1]
                 /\ th[1].bet_data.person2_id = mentions[2]
            ELSE /\ th[1].bet_data.person1_id = th[1].user
                 /\ th[1].bet_data.person2_id = mentions[1]

\* C18: when none of the five patterns matches and the text has no mention
\* other than the bot's, or no numeric token of value at least 1,
\* parse_bet_message returns None, the reply is the "didn't understand" one
\* and no wager is created.
C18_UnparseableIsRefused ==
    (/\ ByLastResort
     /\ \/ \A i \in 1..Len(th[1].text) :
              IsMention(th[1].text[i]) => th[1].text[i].u = Bot
        \/ \A x \in NumTokens(th[1].text) : AmountCents(NumText(x)) < 100)
        => /\ th[1].bet_data = NoParse
           /\ th[1].said = "not_understood"
           /\ bets = <<>>

\* A text holding a mention and a numeric token was refused: the mention is
\* the bot's only, or no token is worth 1 or more.
C18_Witness ==
    /\ Handled /\ th[1].said = "not_understood" /\ bets = <<>>
    /\ \E i \in 1..Len(th[1].text) : IsMention(th[1].text[i])
    /\ NumTokens(th[1].text) # {}
    /\ \/ Mentions(HandledText) # <<>>
       \/ \E x \in NumTokens(th[1].text) : AmountCents(NumText(x)) >= 100

\* C19, as stated: every wager created through parse_bet_message and add_bet
\* has an amount strictly greater than 0.
C19_AmountPositive ==
    \A i \in 1..Len(bets) : AmountCents(bets[i].amount) > 0

(***************************************************************************)
(* Property of the text normalisation (NormSpec).                          *)
(***************************************************************************)
\* C20, as stated: removing every occurrence of the bot's mention and
\* trimming is idempotent: a text that has been normalised once is left as
\* it is by a second normalisation.
C20_NormalizeIdempotent ==
    th[1].pc = "once" => Normalize(th[1].text) = th[1].text

(***************************************************************************)
(* Aggregation over a table with corrupt amounts (AggSpec).                *)
(***************************************************************************)
Parsable(table) == SelectSeq(table, LAMBDA b : b.amount # CorruptAmount)
ValueOrZero(d, k) == IF DictHas(d, k) THEN DictGet(d, k) ELSE FZero

\* C25: a settled wager whose amount cannot be parsed adds 0 to balances and
\* debts: every balance and every debt computed over the table, and every one
\* the balance command has reported, equals the one computed over the table
\* with the corrupt wagers taken out.
C25_CorruptAmountCountsZero ==
    /\ \A u \in Users :
          /\ get_user_balance(bets, u) = get_user_balance(Parsable(bets), u)
          /\ \A v \in Users :
                ValueOrZero(get_user_debts(bets, u), v)
                    = ValueOrZero(get_user_debts(Parsable(bets), u), v)
    /\ \A t \in Threads :
          th[t].said = "balance"
              => /\ th[t].balance = get_user_balance(Parsable(bets), th[t].user)
                 /\ \A v \in Users :
                       ValueOrZero(th[t].debts, v)
                           = ValueOrZero(get_user_debts(Parsable(bets), th[t].user), v)

\* The balance command has answered a user who is in a corrupt wager and in a
\* parsable one, with a balance that is not 0.
C25_Witness ==
    \E t \in Threads :
        /\ th[t].said = "balance"
        /\ th[t].balance # FZero
        /\ \E i, j \in 1..Len(bets) :
              /\ bets[i].amount = CorruptAmount
              /\ bets[j].amount # CorruptAmount
              /\ th[t].user \in {bets[i].person1_id, bets[i].person2_id}
              /\ th[t].user \in {bets[j].person1_id, bets[j].person2_id}

(***************************************************************************)
(* parse_odds against its reference (OddsSpec).                            *)
(***************************************************************************)
\* An optional sign and digits
IsIntegerToken(s) ==
    IsDigits(IF s # <<>> /\ s[1] \in {"+", "-"} THEN Tail(s) ELSE s)
IntegerTokenValue(s) ==
    IF s[1] = "-" THEN 0 - DigitsValue(Tail(s))
    ELSE IF s[1] = "+" THEN DigitsValue(Tail(s))
    ELSE DigitsValue(s)
\* An unsigned token with a decimal point that reads as a number
IsDecimalToken(s) ==
    /\ s # <<>> /\ s[1] \notin {"+", "-"}
    /\ \E i \in 1..Len(s) : s[i] = "."
    /\ FloatParses(s)

OddsReference(token) ==
    LET s == Strip(token)
    IN  IF IsDecimalToken(s) THEN FloatOf(s)
        ELSE IF IsIntegerToken(s) /\ IntegerTokenValue(s) > 0
             THEN FAdd(FOne, FDivInt(IntegerTokenValue(s), 100))
        ELSE IF IsIntegerToken(s) /\ IntegerTokenValue(s) < 0
             THEN FAdd(FOne, FDivInt(100, 0 - IntegerTokenValue(s)))
        ELSE FOne

\* C21: for every token parse_odds returns what the reference gives: the
\* number of an unsigned decimal token, 1 + p/100 for an integer p > 0,
\* 1 + 100/|n| for an integer n < 0, and 1.0 for every other token; the
\* result for a nonzero integer is above 1.
C21_OddsMatchReference ==
    \A t \in Threads :
        th[t].pc = "done"
            => /\ th[t].odds = OddsReference(th[t].text)
               /\ IsIntegerToken(Strip(th[t].text)) /\ IntegerTokenValue(Strip(th[t].text)) # 0
                     => ~th[t].odds.neg /\ MagLess(FOne.m, th[t].odds.m)

(***************************************************************************)
(* parse_parlay_text against its description (LegsSpec).                   *)
(***************************************************************************)
\* The legs can be assigned to the lines they are part of, in order
RECURSIVE InLineOrder(_, _)
InLineOrder(legs, lines) ==
    \/ legs = <<>>
    \/ \E i \in 1..Len(lines) :
          /\ Contains(lines[i], Head(legs).pick)
          /\ InLineOrder(Tail(legs), SubSeq(lines, i, Len(lines)))

\* No trailing-odds pattern of either parser matches on the line
NoOddsPattern(line) ==
    \A pattern \in {"[+-]\\d{3}", "[+-]\\d+", "@", "()", "\\d+\\.\\d+", "\\d+\\.\\d{2}"} :
        Search(pattern, line) = 0

C27_Part1(t) == InLineOrder(th[t].legs, Split(th[t].text, "\n"))
C27_Part2(t) ==
    LET lines == Split(th[t].text, "\n")
    IN  \A i \in 1..Len(lines) :
            LET line == Strip(lines[i])
            IN  Len(line) >= 2 /\ line[1] \notin {"#", "/"} /\ NoOddsPattern(line)
                    => \E k \in 1..Len(th[t].legs) : th[t].legs[k] = [pick |-> line, odds |-> FOne]
C27_Part3(t) == \A k \in 1..Len(th[t].legs) : Len(th[t].legs[k].pick) >= 2

\* C27: the legs parse_parlay_text returns come in the order of their source
\* lines; a line (not a comment) on which no trailing-odds pattern matches
\* is a leg with odds 1.0 and the whole line as pick; and no leg has a pick
\* of fewer than 2 characters.
C27_LegsOfLines ==
    \A t \in Threads :
        th[t].pc = "done" => C27_Part1(t) /\ C27_Part2(t) /\ C27_Part3(t)

(***************************************************************************)
(* match_bet_to_game (GameSpec).                                           *)
(***************************************************************************)
\* The game is completed and one of its four names, lower-cased and longer
\* than 2 characters, occurs in the lower-cased description.
Qualifies(game, description) ==
    /\ game.completed
    /\ \E name \in {game.home_team, game.away_team, game.home_abbrev, game.away_abbrev} :
          Len(Lower(name)) > 2 /\ Contains(Lower(description), Lower(name))

\* C26: match_bet_to_game returns the first game of the list that qualifies,
\* never a game that is not completed, and None when no game qualifies.
C26_FirstCompletedMatch ==
    \A t \in Threads :
        th[t].pc = "done"
            => LET games == th[t].games
                   hits == {i \in 1..Len(games) : Qualifies(games[i], th[t].text)}
               IN  /\ hits = {} => th[t].game = NoGame
                   /\ hits # {} => th[t].game = games[CHOOSE i \in hits : \A j \in hits : i <= j]
                   /\ th[t].game # NoGame => th[t].game.completed

\* The second game of the list was returned, past a first one that is not
\* completed but carries a name of the description.
C26_Witness ==
    \E t \in Threads :
        /\ th[t].pc = "done"
        /\ Len(th[t].games) >= 2
        /\ th[t].game = th[t].games[2]
        /\ ~th[t].games[1].completed
        /\ Contains(Lower(th[t].text), Lower(th[t].games[1].home_team))

(***************************************************************************)
(* Parlays in the two stores (ParlaySpec).                                 *)
(***************************************************************************)
\* The rows a parlays table holds (a deleted row is gone)
ParlayRows(table) == { table[i] : i \in 1..Len(table) } \ {NoParlay}

\* C22 (ParlaySpec): after any sequence of typed parlays, /parlay commands,
\* free-text messages, screenshots and result commands, every parlay in
\* either store has at least one leg.
C22_EveryParlayHasALeg ==
    \A row \in ParlayRows(parlays) \cup ParlayRows(tg_parlays) : Len(row.legs) >= 1

\* A parlay is stored, and the last attempt, whose parse gave no leg, was
\* refused.
C22_Witness ==
    /\ th[1].pc = "done" /\ th[1].said = "no_legs"
    /\ ParlayRows(parlays) # {}

\* C23, as stated (ParlaySpec): every stored parlay has total_odds equal to
\* the product of the odds of its legs, potential_payout equal to stake x
\* total_odds when it has a stake, and no payout value when it has none.
C23_StoredOddsAndPayout ==
    \A row \in ParlayRows(parlays) \cup ParlayRows(tg_parlays) :
        /\ ParseAmountFloat(row.total_odds) = TotalOdds(row.legs)
        /\ IF row.stake = <<>> THEN row.potential_payout = <<>>
           ELSE /\ row.potential_payout # <<>>
                /\ ParseAmountFloat(row.potential_payout[1])
                       = FMul(ParseAmountFloat(row.stake[1]), ParseAmountFloat(row.total_odds))

\* C24, as stated (ParlaySpec): once a parlay of the Slack store has left
\* "open", no step changes its status, result or resolved_at while the row
\* exists.
C24_SettledParlayStays ==
    [][\A i \in 1..Len(parlays) :
          (parlays[i] # NoParlay /\ parlays[i].status # "open" /\ parlays'[i] # NoParlay)
              => /\ parlays'[i].status = parlays[i].status
                 /\ parlays'[i].result = parlays[i].result
                 /\ parlays'[i].resolved_at = parlays[i].resolved_at]_vars

(***************************************************************************)
(* Properties that span the handlers, the store and the ledger.            *)
(***************************************************************************)
\* C28, as stated (Spec): whenever the settle handler has announced
\* "Bet #id settled! W wins ...", the settle_bet call of that handler
\* succeeded and the wager's recorded winner is W.
C28_AnnouncedMeansSettled ==
    \A t \in Threads :
        SettleReturned(t)
            => /\ th[t].ret = "true"
               /\ RowIs(th[t].bet_id, "settled", th[t].winner_id, bets[th[t].bet_id].resolved_at)

\* C29, as stated (LedgerSpec): for every user U, the balance get_balances
\* reports for U equals the sum, over the counterparties V, of the net debt
\* get_user_debts(U) reports for V.
C29_BalanceIsSumOfDebts ==
    \A u \in Users : get_user_balance(bets, u) = SumValues(get_user_debts(bets, u))

\* C30, as stated (ParseSpec): every wager created from a message has two
\* different participants.
C30_ParticipantsDiffer ==
    \A i \in 1..Len(bets) : bets[i].person1_id # bets[i].person2_id
====
